---------------------------- MODULE Spec2Model ----------------------------
(***************************************************************************)
(* Model of the monitoring pipeline of instagram-parser:                   *)
(*   - TrendService (app/services/trend_service.py)                        *)
(*   - AccountAnalyticsService (app/services/account_analytics_service.py) *)
(*   - MonitorService and the repositories it writes through               *)
(*   - the three InstagramFetcherInterface implementations                 *)
(*                                                                         *)
(* Python floats are modelled as exact rationals <<n, d>> with d > 0 in    *)
(* lowest terms; datetimes are integers counting seconds.  None is the     *)
(* empty tuple.                                                            *)
(***************************************************************************)
EXTENDS Integers, Sequences, FiniteSets, TLC

VARIABLES
    \* --- persistent tables (app/db/models.py) ----------------------------
    user_competitors,   \* set of <<user_id, account_id>>
    accounts,           \* account_id -> averages and last_checked
    posts,              \* instagram_posts rows in id order (id = index)
    post_snapshots,     \* post_snapshots rows in id order
    alerts,             \* alerts rows in id order
    \* --- one MonitorService.monitor_cycle and its fetcher ----------------
    fetcher,            \* which InstagramFetcherInterface implementation is wired
    pc,                 \* where the cycle stands
    now,                \* datetime.utcnow(), in seconds
    cycles,             \* number of cycles started so far
    run,                \* process_accounts frame: the accounts list and loop index
    cb,                 \* _process_posts frame of the account being processed
    \* --- history of the current cycle, kept for the properties -----------
    attempted,          \* accounts whose fetch was started in this cycle
    failed,             \* accounts whose fetch raised in this cycle
    called,             \* accounts whose callback was invoked in this cycle
    yielded,            \* account_id -> number of items fetched in this cycle
    processed,          \* account_id -> number of items fully processed in it
    observed,           \* post codes handed to _get_or_create_post so far
    trendings,          \* <<user_id, post_id>> -> times judged trending while following
    \* --- TrendService.analyze_post called on its own ---------------------
    t_args,         \* arguments and TrendConfig of one analyze_post call
    t_result,       \* the PostTrendResult it returned (returned = FALSE before)
    \* --- AccountAnalyticsService.calculate_account_average_speed ---------
    s_args,         \* the posts_speeds list of one call
    s_result,       \* the value it returned (returned = FALSE before)
    \* --- components run on their own -------------------------------------
    scheduler,      \* Scheduler: its fields, the position of start(), its history
    scrape,         \* ScrapeCreatorsFetcher.process_usernames: one call
    lobstr,         \* LobstrFetcher.process_accounts: the remote squid and the calls
    apify,          \* ApifyFetcher: one call of one of its methods
    telegram        \* TelegramNotificationService: what the last round met

dbVars == <<user_competitors, accounts, posts, post_snapshots, alerts>>
cycleVars == <<fetcher, pc, now, cycles, run, cb>>
historyVars == <<attempted, failed, called, yielded, processed, observed, trendings>>
pureVars == <<t_args, t_result, s_args, s_result>>
componentVars == <<scheduler, scrape, lobstr, apify, telegram>>
vars == <<dbVars, cycleVars, historyVars, pureVars, componentVars>>

-----------------------------------------------------------------------------
(* Bounds of the model                                                     *)

MaxSnapshots == 3       \* longest snapshot history handed to analyze_post
MaxSpeeds == 3          \* longest speeds list handed to the aggregator

-----------------------------------------------------------------------------
(* Exact rational arithmetic standing for Python float arithmetic          *)

None == <<>>

Abs(x) == IF x < 0 THEN -x ELSE x

RECURSIVE GCD(_, _)
GCD(a, b) == IF b = 0 THEN a ELSE GCD(b, a % b)

\* n / d in lowest terms with a positive denominator (d # 0)
Rat(n, d) ==
    LET g == GCD(Abs(n), Abs(d))
        s == IF d < 0 THEN -1 ELSE 1
    IN  <<(s * n) \div g, (s * d) \div g>>

RatInt(n) == <<n, 1>>
Zero == RatInt(0)
RatAdd(a, b) == Rat(a[1] * b[2] + b[1] * a[2], a[2] * b[2])
RatSub(a, b) == Rat(a[1] * b[2] - b[1] * a[2], a[2] * b[2])
RatMul(a, b) == Rat(a[1] * b[1], a[2] * b[2])
RatDiv(a, b) == Rat(a[1] * b[2], a[2] * b[1])
RatLE(a, b) == a[1] * b[2] <= b[1] * a[2]
RatLT(a, b) == a[1] * b[2] < b[1] * a[2]

-----------------------------------------------------------------------------
(* TrendService                                                            *)

SecondsPerHour == 3600

\* _hours_between: (dt2 - dt1).total_seconds() / 3600
HoursBetween(dt1, dt2) == Rat(dt2 - dt1, SecondsPerHour)

\* sorted(snapshots, key=lambda s: s.checked_at): a stable sort
RECURSIVE InsertByCheckedAt(_, _)
InsertByCheckedAt(sorted, s) ==
    IF sorted = <<>> THEN <<s>>
    ELSE IF sorted[Len(sorted)].checked_at <= s.checked_at
         THEN Append(sorted, s)
         ELSE Append(InsertByCheckedAt(SubSeq(sorted, 1, Len(sorted) - 1), s),
                     sorted[Len(sorted)])

RECURSIVE SortedByCheckedAt(_)
SortedByCheckedAt(snapshots) ==
    IF snapshots = <<>> THEN <<>>
    ELSE InsertByCheckedAt(
             SortedByCheckedAt(SubSeq(snapshots, 1, Len(snapshots) - 1)),
             snapshots[Len(snapshots)])

\* _calculate_current_speed, on the sorted snapshots
CalculateCurrentSpeedNoDeltaGuard(snapshots, post_age_hours) ==
    LET n == Len(snapshots)
    IN  IF n >= 2 /\ RatLT(Zero, HoursBetween(snapshots[n-1].checked_at,
                                              snapshots[n].checked_at))
        THEN RatDiv(RatInt(snapshots[n].views - snapshots[n-1].views),
                    HoursBetween(snapshots[n-1].checked_at, snapshots[n].checked_at))
        ELSE IF RatLT(Zero, post_age_hours)
             THEN RatDiv(RatInt(snapshots[n].views), post_age_hours)
             ELSE Zero

CalculateCurrentSpeedFirstLast(snapshots, post_age_hours) ==
    LET n == Len(snapshots)
        delta_views == snapshots[n].views - snapshots[1].views
        delta_hours == HoursBetween(snapshots[1].checked_at, snapshots[n].checked_at)
    IN  IF n >= 2 /\ RatLT(Zero, delta_hours) /\ delta_views >= 0
        THEN RatDiv(RatInt(delta_views), delta_hours)
        ELSE IF RatLT(Zero, post_age_hours)
             THEN RatDiv(RatInt(snapshots[n].views), post_age_hours)
             ELSE Zero

CalculateCurrentSpeed(snapshots, post_age_hours) ==
    LET n == Len(snapshots)
        delta_views == snapshots[n].views - snapshots[n-1].views
        delta_hours == HoursBetween(snapshots[n-1].checked_at, snapshots[n].checked_at)
    IN  IF n >= 2 /\ RatLT(Zero, delta_hours) /\ delta_views >= 0
        THEN RatDiv(RatInt(delta_views), delta_hours)
        ELSE IF RatLT(Zero, post_age_hours)
             THEN RatDiv(RatInt(snapshots[n].views), post_age_hours)
             ELSE Zero

\* _calculate_growth
CalculateGrowth(current, avg) ==
    IF RatLE(avg, Zero) THEN Zero
    ELSE RatMul(RatDiv(RatSub(current, avg), avg), RatInt(100))

\* _is_trending, with self.config passed as config
IsTrendingIgnoresCount(config, growth_rate, post_age_hours, snapshots_count) ==
    /\ RatLE(RatInt(config.growth_threshold_percent), growth_rate)
    /\ RatLE(post_age_hours, RatInt(config.max_post_age_hours))

IsTrending(config, growth_rate, post_age_hours, snapshots_count) ==
    /\ RatLE(RatInt(config.growth_threshold_percent), growth_rate)
    /\ RatLE(post_age_hours, RatInt(config.max_post_age_hours))
    /\ snapshots_count >= config.min_snapshots

\* _empty_result
EmptyResult(post_id) ==
    [post_id |-> post_id, current_views |-> 0, views_per_hour |-> Zero,
     avg_views_per_hour |-> Zero, growth_rate |-> Zero, is_trending |-> FALSE]

\* analyze_post
AnalyzePost(config, post_id, published_at, snapshots, account_avg_speed) ==
    IF snapshots = <<>> THEN EmptyResult(post_id)
    ELSE
      LET sorted == SortedByCheckedAt(snapshots)
          current_snapshot == sorted[Len(sorted)]
          post_age_hours == HoursBetween(published_at, current_snapshot.checked_at)
          views_per_hour == CalculateCurrentSpeed(sorted, post_age_hours)
          \* account_avg_speed or 0
          avg_speed == IF account_avg_speed = None \/ account_avg_speed = Zero
                       THEN Zero ELSE account_avg_speed
          growth_rate == CalculateGrowth(views_per_hour, avg_speed)
      IN  [post_id |-> post_id,
           current_views |-> current_snapshot.views,
           views_per_hour |-> views_per_hour,
           avg_views_per_hour |-> avg_speed,
           growth_rate |-> growth_rate,
           is_trending |-> IsTrending(config, growth_rate, post_age_hours, Len(sorted))]

-----------------------------------------------------------------------------
(* AccountAnalyticsService                                                 *)

RECURSIVE RatSum(_)
RatSum(seq) ==
    IF seq = <<>> THEN Zero ELSE RatAdd(seq[1], RatSum(Tail(seq)))

\* [s for s in posts_speeds if s > 0]
ValidSpeeds(posts_speeds) == SelectSeq(posts_speeds, LAMBDA s : RatLT(Zero, s))

\* calculate_account_average_speed
CalculateAccountAverageSpeedAll(posts_speeds) ==
    IF posts_speeds = <<>> THEN Zero
    ELSE RatDiv(RatSum(posts_speeds), RatInt(Len(posts_speeds)))

CalculateAccountAverageSpeed(posts_speeds) ==
    LET valid_speeds == ValidSpeeds(posts_speeds)
    IN  IF valid_speeds = <<>> THEN Zero
        ELSE RatDiv(RatSum(valid_speeds), RatInt(Len(valid_speeds)))

-----------------------------------------------------------------------------
(* The world the pipeline runs in                                          *)

AccountIds == {1, 2}            \* instagram_accounts.id
UserIds == {"u1", "u2"}         \* users.id
PostCodes == {"c1", "c2", "c3"} \* codes the provider knows

\* The provider's catalogue: the account a code belongs to, its publish time
CodeOwner(code) == IF code = "c3" THEN 2 ELSE 1
CodePublishedAt(code) == 0
CodesOf(account_id) == {c \in PostCodes : CodeOwner(c) = account_id}

\* Play counts the provider may report
ViewValues == {1000, 4000}

\* Settings (app/core/settings.py)
MONITOR_INTERVAL == 60
TREND_GROWTH_THRESHOLD == 150
TREND_MAX_POST_AGE_HOURS == 48
TREND_MIN_SNAPSHOTS == 2

\* AppFactory.create_scheduler: the TrendConfig built from the settings
SettingsTrendConfig ==
    [growth_threshold_percent |-> TREND_GROWTH_THRESHOLD,
     max_post_age_hours |-> TREND_MAX_POST_AGE_HOURS,
     min_snapshots |-> TREND_MIN_SNAPSHOTS]

MaxCycles == 2          \* monitoring cycles in one behaviour
MaxItems == 1           \* most items one fetch returns for one account

-----------------------------------------------------------------------------
(* Repositories                                                            *)

\* PostRepository.get_by_code: the id of the row with that code, 0 for None
GetByCode(table, post_code) ==
    IF \E i \in DOMAIN table : table[i].post_code = post_code
    THEN CHOOSE i \in DOMAIN table : table[i].post_code = post_code
    ELSE 0

SnapshotCreateKeepingLatest(table, post_id, views, likes, at) ==
    Append(SelectSeq(table, LAMBDA s : s.post_id # post_id),
           [post_id |-> post_id, views |-> views, likes |-> likes, checked_at |-> at])

\* SnapshotRepository.create: checked_at defaults to datetime.utcnow()
SnapshotCreate(table, post_id, views, likes, at) ==
    Append(table, [post_id |-> post_id, views |-> views, likes |-> likes,
                   checked_at |-> at])

RECURSIVE SnapshotsOf(_, _)
SnapshotsOf(table, post_id) ==
    IF table = <<>> THEN <<>>
    ELSE LET rest == SnapshotsOf(SubSeq(table, 1, Len(table) - 1), post_id)
             s == table[Len(table)]
         IN  IF s.post_id = post_id
             THEN Append(rest, [views |-> s.views, checked_at |-> s.checked_at])
             ELSE rest

\* MonitorService._get_post_snapshots: WHERE post_id = .. ORDER BY checked_at
GetPostSnapshots(table, post_id) == SortedByCheckedAt(SnapshotsOf(table, post_id))

\* UserCompetitorRepository.get_users_by_account
GetUsersByAccount(account_id) ==
    {u \in UserIds : <<u, account_id>> \in user_competitors}

\* AlertRepository.exists
AlertExists(table, user_id, post_id) ==
    \E i \in DOMAIN table : table[i].user_id = user_id /\ table[i].post_id = post_id

\* Alert.__table_args__: UniqueConstraint("user_id", "post_id")
AlertUniqueConstraint(table, user_id, post_id) ==
    ~ \E i \in DOMAIN table : table[i].user_id = user_id /\ table[i].post_id = post_id

\* AlertRepository.create: detected_at and sent_to_telegram take their defaults
AlertCreate(table, user_id, result, at) ==
    Append(table, [user_id |-> user_id, post_id |-> result.post_id,
                   detected_at |-> at, views |-> result.current_views,
                   views_per_hour |-> result.views_per_hour,
                   avg_views_per_hour |-> result.avg_views_per_hour,
                   growth_rate |-> result.growth_rate,
                   sent_to_telegram |-> FALSE])

\* The users of a set in some fixed order, as the rows of one query come back
RECURSIVE SetToSeq(_)
SetToSeq(S) ==
    IF S = {} THEN <<>>
    ELSE LET x == CHOOSE y \in S : TRUE IN <<x>> \o SetToSeq(S \ {x})

\* MonitorService._create_alerts_for_account_users; the result holds the new
\* table and whether an insert broke the unique constraint (IntegrityError)
RECURSIVE CreateAlertsLoop(_, _, _, _)
CreateAlertsLoop(table, users, result, at) ==
    IF users = <<>> THEN [table |-> table, raised |-> FALSE]
    ELSE IF AlertExists(table, users[1], result.post_id)
         THEN CreateAlertsLoop(table, Tail(users), result, at)
         ELSE IF ~AlertUniqueConstraint(table, users[1], result.post_id)
              THEN [table |-> table, raised |-> TRUE]
              ELSE CreateAlertsLoop(AlertCreate(table, users[1], result, at),
                                    Tail(users), result, at)

RECURSIVE CreateAlertsUnchecked(_, _, _, _)
CreateAlertsUnchecked(table, users, result, at) ==
    IF users = <<>> THEN [table |-> table, raised |-> FALSE]
    ELSE CreateAlertsUnchecked(AlertCreate(table, users[1], result, at),
                               Tail(users), result, at)

CreateAlertsForAccountUsersNoExists(table, account_id, result, at) ==
    CreateAlertsUnchecked(table, SetToSeq(GetUsersByAccount(account_id)), result, at)

RECURSIVE CreateAlertsOverwriting(_, _, _, _)
CreateAlertsOverwriting(table, users, result, at) ==
    IF users = <<>> THEN [table |-> table, raised |-> FALSE]
    ELSE IF AlertExists(table, users[1], result.post_id)
         THEN CreateAlertsOverwriting(
                  [i \in DOMAIN table |->
                      IF table[i].user_id = users[1] /\ table[i].post_id = result.post_id
                      THEN [table[i] EXCEPT !.sent_to_telegram = FALSE]
                      ELSE table[i]],
                  Tail(users), result, at)
         ELSE CreateAlertsOverwriting(AlertCreate(table, users[1], result, at),
                                      Tail(users), result, at)

CreateAlertsForAccountUsersUpsert(table, account_id, result, at) ==
    CreateAlertsOverwriting(table, SetToSeq(GetUsersByAccount(account_id)), result, at)

RECURSIVE CreateAlertsRefreshing(_, _, _, _)
CreateAlertsRefreshing(table, users, result, at) ==
    IF users = <<>> THEN [table |-> table, raised |-> FALSE]
    ELSE IF AlertExists(table, users[1], result.post_id)
         THEN CreateAlertsRefreshing(
                  [i \in DOMAIN table |->
                      IF table[i].user_id = users[1] /\ table[i].post_id = result.post_id
                      THEN [table[i] EXCEPT !.detected_at = at,
                                            !.views = result.current_views,
                                            !.views_per_hour = result.views_per_hour,
                                            !.avg_views_per_hour = result.avg_views_per_hour,
                                            !.growth_rate = result.growth_rate]
                      ELSE table[i]],
                  Tail(users), result, at)
         ELSE CreateAlertsRefreshing(AlertCreate(table, users[1], result, at),
                                     Tail(users), result, at)

CreateAlertsForAccountUsersRefresh(table, account_id, result, at) ==
    CreateAlertsRefreshing(table, SetToSeq(GetUsersByAccount(account_id)), result, at)

CreateAlertsForAccountUsersFirstOnly(table, account_id, result, at) ==
    CreateAlertsLoop(table, SubSeq(SetToSeq(GetUsersByAccount(account_id)), 1, 1),
                     result, at)

CreateAlertsForAccountUsers(table, account_id, result, at) ==
    CreateAlertsLoop(table, SetToSeq(GetUsersByAccount(account_id)), result, at)

\* MonitorService._get_accounts_with_subscribers: SELECT DISTINCT accounts
\* JOIN user_competitors
AccountsWithSubscribers ==
    {a \in AccountIds : \E u \in UserIds : <<u, a>> \in user_competitors}

\* The orders in which the rows of a query without ORDER BY may come back
Orderings(S) ==
    {seq \in [1..Cardinality(S) -> S] : \A x \in S : \E i \in DOMAIN seq : seq[i] = x}

-----------------------------------------------------------------------------
(* Initial state                                                           *)

NoRun == [accounts |-> <<>>, i |-> 0]
NoCallback == [account |-> 0, fetched_posts |-> <<>>, j |-> 0,
               reels_speeds |-> <<>>, posts_speeds |-> <<>>]
NoCounts == [a \in AccountIds |-> 0]
NoTrendArgs == [config |-> SettingsTrendConfig, post_id |-> 0, published_at |-> 0,
                snapshots |-> <<>>, account_avg_speed |-> None]
NoTrendResult == [returned |-> FALSE, value |-> EmptyResult(0)]
NoSpeedResult == [returned |-> FALSE, value |-> Zero]

PureIdle ==
    /\ t_args = NoTrendArgs
    /\ t_result = NoTrendResult
    /\ s_args = <<>>
    /\ s_result = NoSpeedResult

\* The components that a specification does not exercise
SchedulerOff == [pc |-> "off"]
ScrapeOff == [pc |-> "off"]
LobstrOff == [pc |-> "off"]
ApifyOff == [pc |-> "off"]
TelegramOff == [pc |-> "off"]
ComponentsOff ==
    /\ scheduler = SchedulerOff
    /\ scrape = ScrapeOff
    /\ lobstr = LobstrOff
    /\ apify = ApifyOff
    /\ telegram = TelegramOff

\* The tables as a fresh deployment finds them: accounts with the column
\* defaults, the post rows that are already stored, no snapshot, no alert.
\* Code c1 is stored, codes c2 and c3 have never been seen.
StoredPosts ==
    << [account_id |-> CodeOwner("c1"), post_code |-> "c1", post_type |-> "reel",
        url |-> <<"url", "c1">>, published_at |-> CodePublishedAt("c1")] >>

Fetchers == {"apify", "lobstr", "scrape"}

FreshAccount ==
    [avg_reels_views_per_hour |-> Zero, avg_posts_views_per_hour |-> Zero,
     last_checked |-> None]

\* The tables after one earlier cycle that observed c1 with 100 views, one
\* hour after its publication
FirstObservation == MONITOR_INTERVAL * 60
SeenAccount(avg) ==
    [avg_reels_views_per_hour |-> avg, avg_posts_views_per_hour |-> Zero,
     last_checked |-> FirstObservation]

InitTables ==
    \/ /\ accounts = [a \in AccountIds |-> FreshAccount]
       /\ post_snapshots = <<>>
       /\ now = FirstObservation
    \/ /\ accounts = [a \in AccountIds |->
                        IF a = CodeOwner("c1") THEN SeenAccount(RatInt(100))
                        ELSE SeenAccount(Zero)]
       /\ post_snapshots = SnapshotCreate(<<>>, 1, 100, 0, FirstObservation)
       /\ now = 2 * FirstObservation

Init ==
    /\ user_competitors = {<<"u1", 1>>, <<"u1", 2>>, <<"u2", 1>>}
    /\ InitTables
    /\ posts = StoredPosts
    /\ alerts = <<>>
    /\ fetcher \in Fetchers
    /\ pc = "idle"
    /\ cycles = 0
    /\ run = NoRun
    /\ cb = NoCallback
    /\ attempted = {}
    /\ failed = {}
    /\ called = {}
    /\ yielded = NoCounts
    /\ processed = NoCounts
    /\ observed = {}
    /\ trendings = [k \in UserIds \X (1..Len(StoredPosts)) |-> 0]
    /\ PureIdle
    /\ ComponentsOff

-----------------------------------------------------------------------------
(* MonitorService.monitor_cycle with each fetcher                          *)

StartHistory ==
    /\ attempted' = {}
    /\ failed' = {}
    /\ called' = {}
    /\ yielded' = NoCounts
    /\ processed' = NoCounts

\* monitor_cycle with ApifyFetcher: process_accounts enters its for loop
MonitorCycleApify ==
    /\ pc = "idle" /\ fetcher = "apify" /\ cycles < MaxCycles
    /\ \E order \in Orderings(AccountsWithSubscribers) :
          run' = [accounts |-> order, i |-> 1]
    /\ pc' = "apify_next"
    /\ cycles' = cycles + 1
    /\ StartHistory
    /\ UNCHANGED <<dbVars, fetcher, now, cb, observed, trendings, pureVars, componentVars>>

\* monitor_cycle with LobstrFetcher: process_accounts returns at once on an
\* empty list; otherwise get_squid finds the fresh SquidStore empty and calls
\* list_squids, whose _request passes kwargs as a fifth positional argument to
\* _request_with_retry: TypeError, caught and logged by process_accounts
MonitorCycleLobstr ==
    /\ pc = "idle" /\ fetcher = "lobstr" /\ cycles < MaxCycles
    /\ \E order \in Orderings(AccountsWithSubscribers) :
          run' = [accounts |-> order, i |-> 0]
    /\ pc' = "returned"
    /\ cycles' = cycles + 1
    /\ StartHistory
    /\ UNCHANGED <<dbVars, fetcher, now, cb, observed, trendings, pureVars, componentVars>>

\* monitor_cycle with ScrapeCreatorsFetcher: the class defines process_usernames
\* and inherits process_accounts, which raises NotImplementedError
MonitorCycleScrape ==
    /\ pc = "idle" /\ fetcher = "scrape" /\ cycles < MaxCycles
    /\ \E order \in Orderings(AccountsWithSubscribers) :
          run' = [accounts |-> order, i |-> 0]
    /\ pc' = "raised"
    /\ cycles' = cycles + 1
    /\ StartHistory
    /\ UNCHANGED <<dbVars, fetcher, now, cb, observed, trendings, pureVars, componentVars>>

-----------------------------------------------------------------------------
(* ApifyFetcher                                                            *)

CurrentAccount == run.accounts[run.i]

\* An exception inside the try of process_accounts: logged, return []
ApifyAbort ==
    /\ pc' = "returned"
    /\ cb' = NoCallback

\* _start_actor for the next account: the run id, or 'Unexpected answer'
ApifyStartActor ==
    /\ pc = "apify_next" /\ run.i <= Len(run.accounts)
    /\ attempted' = attempted \cup {CurrentAccount}
    /\ \/ /\ pc' = "apify_wait"
          /\ UNCHANGED <<failed, cb>>
       \/ /\ failed' = failed \cup {CurrentAccount}
          /\ ApifyAbort
    /\ UNCHANGED <<dbVars, fetcher, now, cycles, run, called, yielded, processed,
                   observed, trendings, pureVars, componentVars>>

ApifyStatuses == {"RUNNING", "SUCCEEDED", "FAILED", "ABORTED", "TIMED-OUT"}

\* one round of the while True loop of _wait_for_finish
ApifyWaitForFinish ==
    /\ pc = "apify_wait"
    /\ \E status \in ApifyStatuses :
          IF status = "SUCCEEDED"
          THEN pc' = "apify_items" /\ UNCHANGED <<failed, cb>>
          ELSE IF status \in {"FAILED", "ABORTED", "TIMED-OUT"}
               THEN failed' = failed \cup {CurrentAccount} /\ ApifyAbort
               ELSE UNCHANGED <<pc, failed, cb>>
    /\ UNCHANGED <<dbVars, fetcher, now, cycles, run, attempted, called, yielded,
                   processed, observed, trendings, pureVars, componentVars>>

\* _map_posts with results_type = "reels": one FetchedPost per dataset item
MapPost(code, views) ==
    [post_code |-> code, url |-> <<"url", code>>, views |-> views, likes |-> 0,
     published_at |-> CodePublishedAt(code), post_type |-> "reel"]

\* The datasets a finished run may hold for an account: each reel at most once
Datasets(account_id) ==
    LET items == {MapPost(c, v) : c \in CodesOf(account_id), v \in ViewValues}
    IN  {reels \in UNION {[1..n -> items] : n \in 0..MaxItems} :
            \A i, j \in DOMAIN reels :
                reels[i].post_code = reels[j].post_code => i = j}

\* _get_dataset_items and _map_posts, then process_callback(account, reels)
\* is awaited: _process_posts starts
ApifyGetDatasetItems ==
    /\ pc = "apify_items"
    /\ \E reels \in Datasets(CurrentAccount) :
          /\ cb' = [account |-> CurrentAccount, fetched_posts |-> reels, j |-> 1,
                    reels_speeds |-> <<>>, posts_speeds |-> <<>>]
          /\ yielded' = [yielded EXCEPT ![CurrentAccount] = Len(reels)]
    /\ called' = called \cup {CurrentAccount}
    /\ pc' = "process_posts"
    /\ UNCHANGED <<dbVars, fetcher, now, cycles, run, attempted, failed, processed,
                   observed, trendings, pureVars, componentVars>>

\* the for loop of process_accounts is exhausted: process_accounts returns
ApifyReturn ==
    /\ pc = "apify_next" /\ run.i > Len(run.accounts)
    /\ pc' = "returned"
    /\ UNCHANGED <<dbVars, fetcher, now, cycles, run, cb, historyVars, pureVars, componentVars>>

-----------------------------------------------------------------------------
(* MonitorService._process_posts                                           *)

\* PostRepository.create(account_id, post_code, url, published_at) called with
\* the extra keyword post_type: Python raises TypeError before any row is added
PostCreateWithPostType(table, account_id, fetched) ==
    [raised |-> TRUE, post_id |-> 0, table |-> table]

\* _get_or_create_post
GetOrCreatePost(table, account_id, fetched) ==
    LET post_id == GetByCode(table, fetched.post_code)
    IN  IF post_id # 0
        THEN [raised |-> FALSE, post_id |-> post_id, table |-> table]
        ELSE PostCreateWithPostType(table, account_id, fetched)

AccountAvgSpeedRunning(account_id, post_type) ==
    CalculateAccountAverageSpeed(IF post_type = "post" THEN cb.posts_speeds
                                 ELSE cb.reels_speeds)

\* account.avg_posts_views_per_hour if post_type == POST else avg_reels_...
AccountAvgSpeed(account_id, post_type) ==
    IF post_type = "post"
    THEN accounts[account_id].avg_posts_views_per_hour
    ELSE accounts[account_id].avg_reels_views_per_hour

Bump(n) == IF n < 2 THEN n + 1 ELSE n

\* one iteration of the for loop
ProcessPost ==
    /\ pc = "process_posts" /\ cb.j <= Len(cb.fetched_posts)
    /\ LET fetched == cb.fetched_posts[cb.j]
           got == GetOrCreatePost(posts, cb.account, fetched)
           snaps == SnapshotCreate(post_snapshots, got.post_id, fetched.views,
                                   fetched.likes, now)
           \* t_args.config holds the TrendConfig the TrendService was built with
           result == AnalyzePost(t_args.config, got.post_id,
                                 posts[got.post_id].published_at,
                                 GetPostSnapshots(snaps, got.post_id),
                                 AccountAvgSpeed(cb.account, fetched.post_type))
           created == IF result.is_trending
                      THEN CreateAlertsForAccountUsers(alerts, cb.account, result, now)
                      ELSE [table |-> alerts, raised |-> FALSE]
       IN  /\ observed' = observed \cup {fetched.post_code}
           /\ posts' = got.table
           /\ IF got.raised
              THEN \* the TypeError leaves _process_posts and is caught by the
                   \* except of ApifyFetcher.process_accounts
                   /\ ApifyAbort
                   /\ UNCHANGED <<post_snapshots, alerts, now, processed, trendings>>
              ELSE /\ post_snapshots' = snaps
                   /\ now' = now
                   /\ alerts' = created.table
                   /\ trendings' =
                        [k \in DOMAIN trendings |->
                           IF /\ result.is_trending
                              /\ k[2] = got.post_id
                              /\ k[1] \in GetUsersByAccount(cb.account)
                           THEN Bump(trendings[k]) ELSE trendings[k]]
                   /\ IF created.raised
                      THEN ApifyAbort /\ UNCHANGED processed
                      ELSE /\ pc' = pc
                           /\ processed' = [processed EXCEPT ![cb.account] = @ + 1]
                           /\ cb' = [cb EXCEPT
                                !.j = @ + 1,
                                !.reels_speeds =
                                    IF fetched.post_type = "reel"
                                    THEN Append(@, result.views_per_hour) ELSE @,
                                !.posts_speeds =
                                    IF fetched.post_type = "reel"
                                    THEN @ ELSE Append(@, result.views_per_hour)]
    /\ UNCHANGED <<user_competitors, accounts, fetcher, cycles, run, attempted, failed,
                   called, yielded, pureVars, componentVars>>

ProcessPostsCommitSmoothing ==
    /\ pc = "process_posts" /\ cb.j > Len(cb.fetched_posts)
    /\ accounts' = [accounts EXCEPT ![cb.account] =
            [avg_reels_views_per_hour |->
                CalculateAccountAverageSpeed(
                    Append(cb.reels_speeds, accounts[cb.account].avg_reels_views_per_hour)),
             avg_posts_views_per_hour |->
                CalculateAccountAverageSpeed(
                    Append(cb.posts_speeds, accounts[cb.account].avg_posts_views_per_hour)),
             last_checked |-> now]]
    /\ pc' = "apify_next"
    /\ run' = [run EXCEPT !.i = @ + 1]
    /\ cb' = NoCallback
    /\ UNCHANGED <<user_competitors, posts, post_snapshots, alerts, fetcher, now,
                   cycles, historyVars, pureVars, componentVars>>

\* after the loop: the two averages, last_checked, session.commit(); the
\* callback returns into the for loop of process_accounts
ProcessPostsCommit ==
    /\ pc = "process_posts" /\ cb.j > Len(cb.fetched_posts)
    /\ accounts' = [accounts EXCEPT ![cb.account] =
            [avg_reels_views_per_hour |-> CalculateAccountAverageSpeed(cb.reels_speeds),
             avg_posts_views_per_hour |-> CalculateAccountAverageSpeed(cb.posts_speeds),
             last_checked |-> now]]
    /\ pc' = "apify_next"
    /\ run' = [run EXCEPT !.i = @ + 1]
    /\ cb' = NoCallback
    /\ UNCHANGED <<user_competitors, posts, post_snapshots, alerts, fetcher, now,
                   cycles, historyVars, pureVars, componentVars>>

\* TelegramNotificationService._get_unsent_alerts: the unsent alerts whose user
\* still follows the account of the post (JOIN user_competitors)
UnsentAlerts ==
    {i \in DOMAIN alerts :
        /\ ~alerts[i].sent_to_telegram
        /\ <<alerts[i].user_id, posts[alerts[i].post_id].account_id>> \in user_competitors}

\* What session.post meets in _send_message: Telegram answers 200, answers
\* another status, or the request raises
TelegramResponses == {"200", "400", "exception"}

SendMessageAlwaysTrue(response) == TRUE

\* _send_message: True for a 200, False for another status and for an
\* exception ("except Exception: return False")
SendMessage(response) == response = "200"

\* What the loop of send_pending_alerts meets for one alert: no
\* telegram_chat_id for the user, else what Telegram did with the message
DeliveryOutcome(chat_id, response) ==
    IF chat_id = None THEN "no_chat_id" ELSE response

\* "if not chat_id: continue" and "if success: alert.sent_to_telegram = True"
MarksSent(chat_id, response) == chat_id # None /\ SendMessage(response)

\* Scheduler.start after monitor_cycle returned: send_pending_alerts goes
\* through the unsent alerts, sets sent_to_telegram where _send_message gave
\* True, then commits
SendPendingAlerts ==
    /\ pc = "returned"
    /\ \E chat_ids \in [UserIds -> {None, <<"chat">>}],
          responses \in [UnsentAlerts -> TelegramResponses] :
          LET outcomes == [i \in UnsentAlerts |->
                              DeliveryOutcome(chat_ids[alerts[i].user_id], responses[i])]
          IN  /\ alerts' = [i \in DOMAIN alerts |->
                              IF i \in UnsentAlerts
                                 /\ MarksSent(chat_ids[alerts[i].user_id], responses[i])
                              THEN [alerts[i] EXCEPT !.sent_to_telegram = TRUE]
                              ELSE alerts[i]]
              /\ telegram' = [pc |-> "round", outcomes |-> outcomes]
    /\ pc' = "delivered"
    /\ UNCHANGED <<user_competitors, accounts, posts, post_snapshots, fetcher, now,
                   cycles, run, cb, historyVars, pureVars, scheduler, scrape, lobstr,
                   apify>>

\* the cycle is over (send_pending_alerts returned, or monitor_cycle raised and
\* the scheduler logged it); the next one starts after
\* asyncio.sleep(self.interval * 60)
Sleep ==
    /\ pc \in {"delivered", "raised"}
    /\ pc' = "idle"
    /\ now' = now + MONITOR_INTERVAL * 60
    /\ telegram' = TelegramOff
    /\ UNCHANGED <<dbVars, fetcher, cycles, run, cb, historyVars, pureVars, scheduler,
                   scrape, lobstr, apify>>

-----------------------------------------------------------------------------
(* The competitors API, which other sessions call at any time              *)

\* The users who call the API while the worker runs; the other subscriptions
\* stay as Init sets them
ApiCallers == {"u1"}

\* POST /competitors: UserCompetitorRepository.get_or_add
AddCompetitor ==
    /\ \E u \in ApiCallers, a \in AccountIds :
          /\ <<u, a>> \notin user_competitors
          /\ user_competitors' = user_competitors \cup {<<u, a>>}
    /\ UNCHANGED <<accounts, posts, post_snapshots, alerts, cycleVars, historyVars,
                   pureVars, componentVars>>

\* DELETE /competitors/{username}: UserCompetitorRepository.remove
DeleteCompetitor ==
    /\ \E u \in ApiCallers, a \in AccountIds :
          /\ <<u, a>> \in user_competitors
          /\ user_competitors' = user_competitors \ {<<u, a>>}
    /\ UNCHANGED <<accounts, posts, post_snapshots, alerts, cycleVars, historyVars,
                   pureVars, componentVars>>

Next ==
    \/ MonitorCycleApify
    \/ MonitorCycleLobstr
    \/ MonitorCycleScrape
    \/ ApifyStartActor
    \/ ApifyWaitForFinish
    \/ ApifyGetDatasetItems
    \/ ApifyReturn
    \/ ProcessPost
    \/ ProcessPostsCommit
    \/ SendPendingAlerts
    \/ Sleep
    \/ AddCompetitor
    \/ DeleteCompetitor

Spec == Init /\ [][Next]_vars

-----------------------------------------------------------------------------
(* MonitorService._process_posts called with one account and one batch     *)

MaxPassItems == 2       \* items of the batch handed to _process_posts

\* The posts table when both codes of account 1 are stored
PassPosts ==
    StoredPosts \o
    << [account_id |-> CodeOwner("c2"), post_code |-> "c2", post_type |-> "post",
        url |-> <<"url", "c2">>, published_at |-> CodePublishedAt("c2")] >>

ContentTypes == {"reel", "post"}

\* FetchedPost objects of either ContentType, each code at most once
PassBatches ==
    LET items == {[MapPost(c, v) EXCEPT !.post_type = t] :
                     c \in {"c1", "c2"}, v \in ViewValues, t \in ContentTypes}
    IN  {batch \in UNION {[1..n -> items] : n \in 0..MaxPassItems} :
            \A i, j \in DOMAIN batch :
                batch[i].post_code = batch[j].post_code => i = j}

\* post_snapshots before the pass: each post observed once or not at all
PassSnapshots ==
    {SelectSeq(<<[post_id |-> 1, views |-> 100, likes |-> 0, checked_at |-> FirstObservation],
                 [post_id |-> 2, views |-> 100, likes |-> 0, checked_at |-> FirstObservation]>>,
               LAMBDA s : s.post_id \in ids) : ids \in SUBSET {1, 2}}

\* avg_reels_views_per_hour and avg_posts_views_per_hour before the pass
PassBaselines == {Zero, RatInt(100), RatInt(5000)}

\* The TrendConfig of the service: the defaults of the settings, or
\* TREND_GROWTH_THRESHOLD set to 0 in the environment
PassConfigs ==
    {SettingsTrendConfig, [SettingsTrendConfig EXCEPT !.growth_threshold_percent = 0]}

InitPass ==
    /\ user_competitors = {<<"u1", 1>>, <<"u1", 2>>, <<"u2", 1>>}
    /\ \E reels \in PassBaselines, plain \in PassBaselines :
          accounts = [a \in AccountIds |->
                        IF a = 1
                        THEN [avg_reels_views_per_hour |-> reels,
                              avg_posts_views_per_hour |-> plain,
                              last_checked |-> FirstObservation]
                        ELSE FreshAccount]
    /\ posts = PassPosts
    /\ post_snapshots \in PassSnapshots
    /\ alerts = <<>>
    /\ fetcher = "apify"
    /\ pc = "process_posts"
    /\ now = 2 * FirstObservation
    /\ cycles = 1
    /\ run = [accounts |-> <<1>>, i |-> 1]
    /\ \E batch \in PassBatches :
          /\ cb = [account |-> 1, fetched_posts |-> batch, j |-> 1,
                   reels_speeds |-> <<>>, posts_speeds |-> <<>>]
          /\ yielded = [NoCounts EXCEPT ![1] = Len(batch)]
    /\ attempted = {1}
    /\ failed = {}
    /\ called = {1}
    /\ processed = NoCounts
    /\ observed = {}
    /\ trendings = [k \in UserIds \X (1..Len(PassPosts)) |-> 0]
    /\ t_args \in {[NoTrendArgs EXCEPT !.config = c] : c \in PassConfigs}
    /\ t_result = NoTrendResult
    /\ s_args = <<>>
    /\ s_result = NoSpeedResult
    /\ ComponentsOff

NextPass ==
    \/ ProcessPost
    \/ ProcessPostsCommit

SpecPass == InitPass /\ [][NextPass]_vars

-----------------------------------------------------------------------------
(* TrendService.analyze_post and calculate_account_average_speed called    *)
(* directly, on every input of a bounded family                            *)

\* The pipeline at rest while a pure function is exercised
PipelineOff ==
    /\ user_competitors = {}
    /\ accounts = [a \in AccountIds |-> FreshAccount]
    /\ posts = StoredPosts
    /\ post_snapshots = <<>>
    /\ alerts = <<>>
    /\ fetcher = "apify"
    /\ pc = "off"
    /\ now = 0
    /\ cycles = 0
    /\ run = NoRun
    /\ cb = NoCallback
    /\ attempted = {}
    /\ failed = {}
    /\ called = {}
    /\ yielded = NoCounts
    /\ processed = NoCounts
    /\ observed = {}
    /\ trendings = [k \in UserIds \X (1..Len(StoredPosts)) |-> 0]

TrendConfigs ==
    [growth_threshold_percent : {0, 150},
     max_post_age_hours : {1, 48},
     min_snapshots : {1, 2}]

CheckedTimes == {3600, 7200, 10800}
PublishTimes == {0, 7200}
SnapshotViews == {0, 1000, 1500}
SnapshotData == [views : SnapshotViews, checked_at : CheckedTimes]
Baselines == {None, Zero, RatInt(-100), RatInt(100)}

InitTrend ==
    /\ PipelineOff
    /\ ComponentsOff
    /\ t_args \in [config : TrendConfigs,
                   post_id : {1},
                   published_at : PublishTimes,
                   snapshots : UNION {[1..n -> SnapshotData] : n \in 0..MaxSnapshots},
                   account_avg_speed : Baselines]
    /\ t_result = NoTrendResult
    /\ s_args = <<>>
    /\ s_result = NoSpeedResult

CallAnalyzePost ==
    /\ ~t_result.returned
    /\ t_result' = [returned |-> TRUE,
                    value |-> AnalyzePost(t_args.config, t_args.post_id,
                                          t_args.published_at, t_args.snapshots,
                                          t_args.account_avg_speed)]
    /\ UNCHANGED <<dbVars, cycleVars, historyVars, componentVars, t_args, s_args, s_result>>

NextTrend == CallAnalyzePost

SpecTrend == InitTrend /\ [][NextTrend]_vars

SpeedValues == {RatInt(-100), Zero, Rat(1, 2), RatInt(100), RatInt(500)}

InitSpeed ==
    /\ PipelineOff
    /\ ComponentsOff
    /\ t_args = NoTrendArgs
    /\ t_result = NoTrendResult
    /\ s_args \in UNION {[1..n -> SpeedValues] : n \in 0..MaxSpeeds}
    /\ s_result = NoSpeedResult

CallCalculateAccountAverageSpeed ==
    /\ ~s_result.returned
    /\ s_result' = [returned |-> TRUE, value |-> CalculateAccountAverageSpeed(s_args)]
    /\ UNCHANGED <<dbVars, cycleVars, historyVars, componentVars, t_args, t_result, s_args>>

NextSpeed == CallCalculateAccountAverageSpeed

SpecSpeed == InitSpeed /\ [][NextSpeed]_vars

-----------------------------------------------------------------------------
(* Scheduler.start and Scheduler.stop, with monitor_cycle and               *)
(* send_pending_alerts as calls that return or raise                       *)

MaxWakes == 3           \* loop iterations of start() in one behaviour

\* datetime.now(MSK).time() of a wake, in seconds since local midnight
SecondsPerDay == 86400
WorkingHoursStart == 8 * 3600
WakeTimes == {0, WorkingHoursStart - 1, WorkingHoursStart, WorkingHoursStart + 1,
              SecondsPerDay - 1}

\* Scheduler.is_within_working_hours
IsWithinWorkingHoursStrict(time_of_day) == WorkingHoursStart < time_of_day

IsWithinWorkingHours(time_of_day) == WorkingHoursStart <= time_of_day

\* while self._running
LoopTestIgnoresFlag(s) == TRUE

LoopTest(s) == s.running

\* Scheduler.__init__: _running is False; start() has not been called
NewScheduler(skip_night_time) ==
    [pc |-> "new", running |-> FALSE, skip_night_time |-> skip_night_time,
     started_at |-> 0, wakes |-> 0, monitor_calls |-> 0, deliveries |-> 0,
     cycle_raised |-> FALSE, stop_called |-> FALSE]

InitScheduler ==
    /\ PipelineOff
    /\ PureIdle
    /\ scheduler \in {NewScheduler(skip) : skip \in BOOLEAN}
    /\ scrape = ScrapeOff
    /\ lobstr = LobstrOff
    /\ apify = ApifyOff
    /\ telegram = TelegramOff

OnlyScheduler == UNCHANGED <<dbVars, cycleVars, historyVars, pureVars, scrape, lobstr, apify, telegram>>

\* start(): self._running = True
SchedulerStart ==
    /\ scheduler.pc = "new"
    /\ scheduler' = [scheduler EXCEPT !.pc = "loop", !.running = TRUE]
    /\ OnlyScheduler

\* one evaluation of the while condition; when it holds, started_at is read
\* and the working-hours gate decides between the cycle and the sleep
SchedulerWake ==
    /\ scheduler.pc = "loop"
    /\ IF LoopTest(scheduler)
       THEN /\ scheduler.wakes < MaxWakes
            /\ \E t \in WakeTimes :
                 scheduler' = [scheduler EXCEPT
                    !.started_at = t,
                    !.wakes = @ + 1,
                    !.monitor_calls = 0,
                    !.deliveries = 0,
                    !.cycle_raised = FALSE,
                    !.pc = IF IsWithinWorkingHours(t) \/ ~scheduler.skip_night_time
                           THEN "session" ELSE "sleep"]
       ELSE scheduler' = [scheduler EXCEPT !.pc = "stopped"]
    /\ OnlyScheduler

\* async with self.session_factory() as session, then
\* telegram_service_factory(session): both run before the try statement, so an
\* exception they raise leaves start()
SchedulerAcquireSession ==
    /\ scheduler.pc = "session"
    /\ \E raised \in BOOLEAN :
          scheduler' = [scheduler EXCEPT !.pc = IF raised THEN "crashed" ELSE "monitor"]
    /\ OnlyScheduler

\* await self.monitor_service.monitor_cycle() inside the try: an exception is
\* logged and send_pending_alerts is skipped
SchedulerMonitorCycle ==
    /\ scheduler.pc = "monitor"
    /\ \E raised \in BOOLEAN :
          scheduler' = [scheduler EXCEPT
             !.monitor_calls = @ + 1,
             !.cycle_raised = raised,
             !.pc = IF raised THEN "sleep" ELSE "deliver"]
    /\ OnlyScheduler

\* await telegram_service.send_pending_alerts() inside the try
SchedulerSendPendingAlerts ==
    /\ scheduler.pc = "deliver"
    /\ \E raised \in BOOLEAN :
          scheduler' = [scheduler EXCEPT
             !.deliveries = @ + 1,
             !.cycle_raised = raised,
             !.pc = "sleep"]
    /\ OnlyScheduler

\* await asyncio.sleep(self.interval * 60) has completed
SchedulerSleep ==
    /\ scheduler.pc = "sleep"
    /\ scheduler' = [scheduler EXCEPT !.pc = "loop"]
    /\ OnlyScheduler

\* stop(), called from another task while start() runs
SchedulerStop ==
    /\ scheduler.pc \in {"loop", "session", "monitor", "deliver", "sleep"}
    /\ ~scheduler.stop_called
    /\ scheduler' = [scheduler EXCEPT !.running = FALSE, !.stop_called = TRUE]
    /\ OnlyScheduler

SchedulerRuns ==
    \/ SchedulerStart
    \/ SchedulerWake
    \/ SchedulerAcquireSession
    \/ SchedulerMonitorCycle
    \/ SchedulerSendPendingAlerts
    \/ SchedulerSleep

NextScheduler ==
    \/ SchedulerStart
    \/ SchedulerWake
    \/ SchedulerAcquireSession
    \/ SchedulerMonitorCycle
    \/ SchedulerSendPendingAlerts
    \/ SchedulerSleep
    \/ SchedulerStop

SpecScheduler == InitScheduler /\ [][NextScheduler]_vars

\* the event loop keeps running the coroutine of start(): every await of it
\* (the factories, the cycle, the delivery, the sleep) completes
SpecSchedulerLive == SpecScheduler /\ WF_vars(SchedulerRuns)

-----------------------------------------------------------------------------
(* TelegramNotificationService.send_pending_alerts alert by alert, over the *)
(* cycles of one Scheduler                                                  *)

MaxRounds == 3          \* cycles of the scheduler in one behaviour

\* The ids of the alerts rows that exist, all unsent at first
DeliveryAlerts == {1, 2}

InitDelivery ==
    /\ PipelineOff
    /\ PureIdle
    /\ scheduler = SchedulerOff
    /\ scrape = ScrapeOff
    /\ lobstr = LobstrOff
    /\ apify = ApifyOff
    /\ \E follows \in [DeliveryAlerts -> BOOLEAN],
          chat_ids \in [DeliveryAlerts -> {None, <<"chat">>}] :
          telegram = [pc |-> "idle", cycles |-> 0, last |-> "",
                      sent |-> [a \in DeliveryAlerts |-> FALSE],
                      follows |-> follows, chat_ids |-> chat_ids,
                      queue |-> <<>>, k |-> 0, marked |-> {}, handed |-> {},
                      succeeded |-> {}, resent |-> {}]

OnlyTelegram == UNCHANGED <<dbVars, cycleVars, historyVars, pureVars, scheduler, scrape,
                            lobstr, apify>>

\* _get_unsent_alerts on the committed rows: sent_to_telegram false and the
\* user still follows the account, in whatever order the query gives
UnsentOf(t) == {a \in DeliveryAlerts : ~t.sent[a] /\ t.follows[a]}

\* a cycle of Scheduler.start: monitor_cycle raises and the except clause
\* skips send_pending_alerts, or it returns and send_pending_alerts reads the
\* unsent alerts
DeliveryCycle ==
    /\ telegram.pc = "idle" /\ telegram.cycles < MaxRounds
    /\ \/ telegram' = [telegram EXCEPT !.cycles = @ + 1, !.last = "pass_raised",
                                       !.queue = <<>>, !.k = 0, !.marked = {},
                                       !.handed = {}]
       \/ \E order \in Orderings(UnsentOf(telegram)) :
             telegram' = [telegram EXCEPT !.cycles = @ + 1, !.last = "",
                                          !.pc = "round",
                                          !.queue = order, !.k = 1, !.marked = {},
                                          !.handed = {}]
    /\ OnlyTelegram

\* one turn of the for loop.  The session.execute of _get_user_chat_id may
\* raise; the exception leaves send_pending_alerts before its commit, the
\* scheduler logs it and the session closes, so the flags set in this round
\* are dropped.
DeliverySendOne ==
    /\ telegram.pc = "round" /\ telegram.k <= Len(telegram.queue)
    /\ LET a == telegram.queue[telegram.k]
           chat_id == telegram.chat_ids[a]
       IN  \E lookup_raises \in BOOLEAN, response \in TelegramResponses :
              telegram' =
                 IF lookup_raises
                 THEN [telegram EXCEPT !.pc = "idle", !.last = "round_failed",
                                       !.marked = {}]
                 ELSE IF chat_id = None
                      THEN [telegram EXCEPT !.k = @ + 1]
                      ELSE [telegram EXCEPT
                               !.k = @ + 1,
                               !.handed = @ \cup {a},
                               !.resent = @ \cup ({a} \cap telegram.succeeded),
                               !.succeeded = IF SendMessage(response) THEN @ \cup {a} ELSE @,
                               !.marked = IF MarksSent(chat_id, response)
                                          THEN @ \cup {a} ELSE @]
    /\ OnlyTelegram

\* after the loop: await self.session.commit()
DeliveryCommit ==
    /\ telegram.pc = "round" /\ telegram.k > Len(telegram.queue)
    /\ telegram' = [telegram EXCEPT
                       !.pc = "idle", !.last = "committed",
                       !.sent = [a \in DeliveryAlerts |-> @[a] \/ a \in telegram.marked],
                       !.marked = {}]
    /\ OnlyTelegram

\* DELETE /competitors/{username} from the API: the user of an alert stops
\* following the account
DeliveryUnfollow ==
    /\ telegram.pc \in {"idle", "round"}
    /\ \E a \in DeliveryAlerts :
          /\ telegram.follows[a]
          /\ telegram' = [telegram EXCEPT !.follows[a] = FALSE]
    /\ OnlyTelegram

DeliveryRuns ==
    \/ DeliveryCycle
    \/ DeliverySendOne
    \/ DeliveryCommit

NextDelivery ==
    \/ DeliveryCycle
    \/ DeliverySendOne
    \/ DeliveryCommit
    \/ DeliveryUnfollow

\* the event loop keeps running the coroutine of start()
SpecDelivery == InitDelivery /\ [][NextDelivery]_vars /\ WF_vars(DeliveryRuns)

-----------------------------------------------------------------------------
(* ScrapeCreatorsFetcher.process_usernames called directly                 *)

MaxPages == 2           \* pages the provider serves for one account
MaxPageItems == 2       \* items on one page

\* A media object of a page: its shortcode and whether taken_at is before the
\* cutoff (now - max_age_hours) or not
MediaItems == [code : {"c1", "c2"}, published : {"new", "old"}]
\* pages list newest first, so a code appears once on a page
PageItems ==
    {items \in UNION {[1..n -> MediaItems] : n \in 0..MaxPageItems} :
        \A i, j \in DOMAIN items : i < j => items[i].code # items[j].code}

\* next_max_id values of the provider
Cursors == {<<"m1">>, <<"m2">>}

\* What ScrapeCreatorsClient.get_reels_page meets: raise_for_status() raises
\* ClientResponseError for 404 and 500, a 200 gives the page
Responses ==
    [status : {404, 500}, items : {<<>>}, more_available : {FALSE}, next_max_id : {None}]
    \cup [status : {200}, items : PageItems, more_available : BOOLEAN,
          next_max_id : {None} \cup Cursors]

\* _media_to_fetched_post: a media object with a code reaches
\* "ContentType.REEL if is_reel else ContentType.POST", and the module does not
\* import ContentType: NameError
MediaToFetchedPost(media) ==
    IF media.code = "" THEN [raised |-> FALSE, post |-> None]
    ELSE [raised |-> TRUE, post |-> None]

\* _parse_items: the posts of the page, or the exception of the first item
RECURSIVE ParseItems(_)
ParseItems(raw_items) ==
    IF raw_items = <<>> THEN [raised |-> FALSE, posts |-> <<>>]
    ELSE LET first == MediaToFetchedPost(raw_items[1])
             rest == ParseItems(Tail(raw_items))
         IN  IF first.raised \/ rest.raised THEN [raised |-> TRUE, posts |-> <<>>]
             ELSE [raised |-> FALSE,
                   posts |-> IF first.post = None THEN rest.posts
                             ELSE <<first.post>> \o rest.posts]

\* the for loop over the posts of a page: the posts before the first one with
\* published_at < cutoff, and whether such a post was met
RECURSIVE TakeUntilOld(_)
TakeUntilOld(page_posts) ==
    IF page_posts = <<>> THEN [accepted |-> <<>>, stop_pagination |-> FALSE]
    ELSE IF page_posts[1].published = "old"
         THEN [accepted |-> <<>>, stop_pagination |-> TRUE]
         ELSE LET rest == TakeUntilOld(Tail(page_posts))
              IN  [accepted |-> <<page_posts[1]>> \o rest.accepted,
                   stop_pagination |-> rest.stop_pagination]

\* the frame of one _fetch_one coroutine
NewFetchOne ==
    [status |-> "running", page |-> 0, pages |-> <<>>, all_posts |-> <<>>,
     called |-> FALSE, delivered |-> <<>>, failed |-> FALSE,
     max_id |-> None, cursors |-> <<>>]

\* the end of _fetch_one: callback(account, all_posts) when all_posts is not
\* empty
FetchOneEnd(task) ==
    [task EXCEPT !.status = "done",
                 !.called = (task.all_posts # <<>>),
                 !.delivered = task.all_posts]

StopsAfterPageIgnoringMore(resp) == resp.next_max_id = None

\* "if not more_available or not next_max_id: break"
StopsAfterPage(resp) == ~resp.more_available \/ resp.next_max_id = None

\* one turn of the while loop of _fetch_one on the response resp to
\* get_reels_page(username, max_id=max_id)
FetchOnePage(task, resp) ==
    LET t == [task EXCEPT !.page = @ + 1, !.pages = Append(@, resp),
                          !.cursors = Append(@, task.max_id)]
    IN  IF resp.status = 404 THEN FetchOneEnd([t EXCEPT !.failed = TRUE])
        ELSE IF resp.status # 200 THEN [t EXCEPT !.status = "raised", !.failed = TRUE]
        ELSE LET parsed == ParseItems(resp.items)
             IN  IF parsed.raised THEN [t EXCEPT !.status = "raised"]
                 ELSE LET taken == TakeUntilOld(parsed.posts)
                          u == [t EXCEPT !.all_posts = @ \o taken.accepted]
                      IN  IF taken.stop_pagination THEN FetchOneEnd(u)
                          ELSE IF StopsAfterPage(resp) THEN FetchOneEnd(u)
                          ELSE [u EXCEPT !.max_id = resp.next_max_id]

\* asyncio.gather(*tasks, return_exceptions=True) is over
GatherDone(tasks) == \A a \in DOMAIN tasks : tasks[a].status # "running"

\* the accounts of a call: none, one, or both in the order of the query
AccountLists == {<<>>, <<1>>, <<2>>, <<1, 2>>}

InitScrape ==
    /\ PipelineOff
    /\ PureIdle
    /\ scheduler = SchedulerOff
    /\ lobstr = LobstrOff
    /\ apify = ApifyOff
    /\ telegram = TelegramOff
    /\ scrape \in {[pc |-> "new", accounts |-> l, tasks |-> <<>>] : l \in AccountLists}

OnlyScrape == UNCHANGED <<dbVars, cycleVars, historyVars, pureVars, scheduler, lobstr, apify, telegram>>

\* process_usernames: return on an empty list, else one _fetch_one per account
ScrapeProcessUsernames ==
    /\ scrape.pc = "new"
    /\ scrape' = IF scrape.accounts = <<>>
                 THEN [scrape EXCEPT !.pc = "returned"]
                 ELSE [scrape EXCEPT !.pc = "gather",
                                     !.tasks = [i \in DOMAIN scrape.accounts |-> NewFetchOne]]
    /\ OnlyScrape

\* one _fetch_one coroutine gets its next page
ScrapeGetReelsPage ==
    /\ scrape.pc = "gather"
    /\ \E i \in DOMAIN scrape.tasks, resp \in Responses :
          /\ scrape.tasks[i].status = "running"
          /\ scrape.tasks[i].page >= MaxPages - 1 =>
                ~(resp.status = 200 /\ resp.items = <<>> /\ resp.next_max_id # None)
          /\ scrape' = [scrape EXCEPT !.tasks[i] = FetchOnePage(@, resp)]
    /\ OnlyScrape

\* gather returns the results; the exceptions among them are logged
ScrapeGatherReturns ==
    /\ scrape.pc = "gather"
    /\ GatherDone(scrape.tasks)
    /\ scrape' = [scrape EXCEPT !.pc = "returned"]
    /\ OnlyScrape

NextScrape ==
    \/ ScrapeProcessUsernames
    \/ ScrapeGetReelsPage
    \/ ScrapeGatherReturns

SpecScrape == InitScrape /\ [][NextScrape]_vars

-----------------------------------------------------------------------------
(* LobstrFetcher.process_accounts against the one squid of the crawler     *)

\* Instagram handles as they are written in accounts and in task urls
Usernames == {"a", "B", "d"}
TaskHandles == {"A", "b", "a"}

\* str.lower()
Lower(u) ==
    CASE u = "A" -> "a"
      [] u = "B" -> "b"
      [] OTHER -> u

\* The tasks of the squid at Lobstr: id and the last path part of params.url;
\* any sub-list of three tasks, two of which differ only in case
AllRemoteTasks ==
    <<[id |-> 1, handle |-> "A"], [id |-> 2, handle |-> "b"], [id |-> 3, handle |-> "a"]>>
RemoteTaskLists ==
    {SelectSeq(AllRemoteTasks, LAMBDA t : t.id \in ids) : ids \in SUBSET {1, 2, 3}}

\* The accounts of one pass, by username
UsernameLists ==
    {<<>>} \cup {<<u>> : u \in Usernames}
           \cup {<<p[1], p[2]>> : p \in {q \in Usernames \X Usernames : q[1] # q[2]}}

\* Who calls process_accounts: the scheduler's pass and an on-demand pass
LobstrCallers == {"scheduled", "on_demand"}

\* LobstrClient._request: it calls _request_with_retry(method, path, 0, kwargs),
\* four positional arguments where the signature takes three and **kwargs:
\* TypeError before anything is sent, whatever the remote would answer
LobstrRequest(answer) == [raised |-> TRUE, value |-> None]

\* LobstrClient.list_squids
ListSquids(remote) == LobstrRequest(remote.squid)

\* SquidManager.get_squid on the fresh SquidStore of the pass: the store has no
\* hash, so the squid is looked up among list_squids() by its crawler
GetSquid(remote) ==
    LET all_squids == ListSquids(remote)
    IN  IF all_squids.raised THEN [raised |-> TRUE, squid_hash |-> None]
        ELSE IF all_squids.value THEN [raised |-> FALSE, squid_hash |-> <<"squid">>]
        ELSE [raised |-> TRUE, squid_hash |-> None]

\* LobstrClient.list_tasks
ListTasks(remote) == LobstrRequest(remote.tasks)

\* the index ensure_tasks builds: lowercased handle -> task id, a later task
\* replacing an earlier one with the same key, tasks without url left out
ExistingIndex(tasks) ==
    LET with_url == {i \in DOMAIN tasks : tasks[i].handle # ""}
        keys == {Lower(tasks[i].handle) : i \in with_url}
        last(u) == CHOOSE i \in with_url :
                      /\ Lower(tasks[i].handle) = u
                      /\ \A j \in with_url : Lower(tasks[j].handle) = u => j <= i
    IN  [u \in keys |-> tasks[last(u)].id]

\* to_delete and to_add of ensure_tasks
ToDelete(existing, usernames) ==
    LET target == {Lower(usernames[i]) : i \in DOMAIN usernames}
    IN  {existing[u] : u \in DOMAIN existing \ target}
ToAdd(existing, usernames) ==
    SelectSeq(usernames, LAMBDA u : Lower(u) \notin DOMAIN existing)

\* SquidManager.ensure_tasks: list, remove_task for to_delete, one add_tasks
\* for to_add
EnsureTasks(remote, usernames) ==
    LET listed == ListTasks(remote)
    IN  IF listed.raised THEN [raised |-> TRUE, remote |-> remote]
        ELSE LET existing == ExistingIndex(listed.value)
                 to_delete == ToDelete(existing, usernames)
                 to_add == ToAdd(existing, usernames)
                 removed == [remote EXCEPT !.removed = @ \cup to_delete]
             IN  IF to_delete # {} /\ LobstrRequest(None).raised
                 THEN [raised |-> TRUE, remote |-> remote]
                 ELSE IF to_add = <<>> THEN [raised |-> FALSE, remote |-> removed]
                 ELSE IF LobstrRequest(None).raised
                      THEN [raised |-> TRUE, remote |-> removed]
                      ELSE [raised |-> FALSE,
                            remote |-> [removed EXCEPT !.added = @ \o to_add]]

\* LobstrClient.create_run
CreateRun(remote) ==
    IF LobstrRequest(None).raised THEN [raised |-> TRUE, remote |-> remote]
    ELSE [raised |-> FALSE, remote |-> [remote EXCEPT !.runs = @ + 1]]

\* _dispatch calls callback(account, posts) without await: the callback of
\* the program, MonitorService._process_posts, is a coroutine function, so the
\* call makes a coroutine that never runs
CallbackRuns == FALSE

\* asyncio.gather(*[_dispatch(...)], return_exceptions=True): the accounts
\* whose callback ran, failing being those whose _dispatch raises
DispatchAll(usernames, failing) ==
    {usernames[i] : i \in {j \in DOMAIN usernames :
                              usernames[j] \notin failing /\ CallbackRuns}}

\* The try block of process_accounts from get_squid on: resolve, reconcile,
\* run, then the dispatch of the results, each step only when the one before
\* did not raise.  The steps come in one operator because every request
\* raises in the caller's own process, so no step after the first is ever
\* reached.
ProcessAccountsTry(remote, usernames, failing) ==
    LET squid == GetSquid(remote)
    IN  IF squid.raised
        THEN [raised |-> TRUE, resolved |-> FALSE, reconciled |-> FALSE,
              remote |-> remote, dispatched |-> {}]
        ELSE LET ensured == EnsureTasks(remote, usernames)
             IN  IF ensured.raised
                 THEN [raised |-> TRUE, resolved |-> TRUE, reconciled |-> FALSE,
                       remote |-> ensured.remote, dispatched |-> {}]
                 ELSE LET started == CreateRun(ensured.remote)
                      IN  [raised |-> started.raised, resolved |-> TRUE,
                           reconciled |-> TRUE, remote |-> started.remote,
                           dispatched |-> IF started.raised THEN {}
                                          ELSE DispatchAll(usernames, failing)]

NewPass(usernames) ==
    [pc |-> "idle", usernames |-> usernames, raised |-> FALSE,
     resolved |-> FALSE, reconciled |-> FALSE, failing |-> {}, dispatched |-> {}]

InitLobstr ==
    /\ PipelineOff
    /\ PureIdle
    /\ scheduler = SchedulerOff
    /\ scrape = ScrapeOff
    /\ apify = ApifyOff
    /\ telegram = TelegramOff
    /\ \E squid \in BOOLEAN, tasks \in RemoteTaskLists :
       \E lists \in [LobstrCallers -> UsernameLists] :
          lobstr = [remote |-> [squid |-> squid, tasks |-> tasks, removed |-> {},
                                added |-> <<>>, runs |-> 0],
                    passes |-> [c \in LobstrCallers |-> NewPass(lists[c])]]

OnlyLobstr == UNCHANGED <<dbVars, cycleVars, historyVars, pureVars, scheduler, scrape, apify, telegram>>

\* process_accounts is called: return on an empty list, else the session, the
\* client, the store and the manager of this pass are made
LobstrProcessAccounts(c) ==
    /\ lobstr.passes[c].pc = "idle"
    /\ lobstr' = [lobstr EXCEPT !.passes[c].pc =
                      IF lobstr.passes[c].usernames = <<>> THEN "returned" ELSE "sequence"]
    /\ OnlyLobstr

\* the pass goes through its sequence and the dispatch; "except Exception"
\* logs what it raises.  failing: the accounts for which _parse_results or the
\* callback would raise.
LobstrSequence(c) ==
    /\ lobstr.passes[c].pc = "sequence"
    /\ \E failing \in SUBSET {lobstr.passes[c].usernames[i] :
                                 i \in DOMAIN lobstr.passes[c].usernames} :
          LET outcome == ProcessAccountsTry(lobstr.remote, lobstr.passes[c].usernames,
                                            failing)
          IN  lobstr' = [lobstr EXCEPT !.remote = outcome.remote,
                                       !.passes[c] = [@ EXCEPT !.pc = "returned",
                                                               !.raised = outcome.raised,
                                                               !.resolved = outcome.resolved,
                                                               !.reconciled = outcome.reconciled,
                                                               !.failing = failing,
                                                               !.dispatched = outcome.dispatched]]
    /\ OnlyLobstr

NextLobstr ==
    \E c \in LobstrCallers :
        \/ LobstrProcessAccounts(c)
        \/ LobstrSequence(c)

SpecLobstr == InitLobstr /\ [][NextLobstr]_vars

-----------------------------------------------------------------------------
(* LobstrFetcher._poll_until_done on a run that exists                     *)

MaxWaitSeconds == 4     \* largest max_wait_seconds of a fetcher
MaxPollInterval == 3    \* largest poll_interval of a fetcher

\* What Lobstr would answer to GET /runs/{hash} at the time of a poll
RunStatuses == [status : {"running", "done", "error"}, export_done : BOOLEAN]

\* LobstrClient.get_run_status and LobstrClient.get_results
GetRunStatus(answer) == LobstrRequest(answer)
GetResults(answer) == LobstrRequest(answer)

\* the body of the while loop after the sleep: where the iteration leaves
\* the coroutine
PollIteration(answer) ==
    LET status_data == GetRunStatus(answer)
    IN  IF status_data.raised THEN "continue"
        ELSE IF status_data.value.status = "error" THEN "RuntimeError"
        ELSE IF status_data.value.export_done
             THEN IF GetResults(answer).raised THEN "TypeError" ELSE "results"
        ELSE "continue"

\* ceil(a / b) for positive b
CeilDiv(a, b) == (a + b - 1) \div b

InitLobstrPoll ==
    /\ PipelineOff
    /\ PureIdle
    /\ scheduler = SchedulerOff
    /\ scrape = ScrapeOff
    /\ apify = ApifyOff
    /\ telegram = TelegramOff
    /\ \E wait \in 1..MaxWaitSeconds, interval \in 1..MaxPollInterval :
          lobstr = [pc |-> "poll", max_wait_seconds |-> wait, poll_interval |-> interval,
                    elapsed |-> 0, answers |-> <<>>, left_with |-> "", escaped |-> FALSE]

\* one turn of the loop: sleep, elapsed += poll_interval, the status request
LobstrPollStatus ==
    /\ lobstr.pc = "poll"
    /\ lobstr.elapsed < lobstr.max_wait_seconds
    /\ \E answer \in RunStatuses :
          LET leaves == PollIteration(answer)
          IN  lobstr' = [lobstr EXCEPT
                            !.elapsed = @ + lobstr.poll_interval,
                            !.answers = Append(@, answer),
                            !.pc = IF leaves = "continue" THEN "poll"
                                   ELSE IF leaves = "results" THEN "dispatch"
                                   ELSE "raised",
                            !.left_with = IF leaves = "continue" THEN "" ELSE leaves]
    /\ OnlyLobstr

\* the loop test fails: raise TimeoutError
LobstrPollTimeout ==
    /\ lobstr.pc = "poll"
    /\ ~(lobstr.elapsed < lobstr.max_wait_seconds)
    /\ lobstr' = [lobstr EXCEPT !.pc = "raised", !.left_with = "TimeoutError"]
    /\ OnlyLobstr

\* "except Exception" of process_accounts logs it; the call returns
LobstrPollCaught ==
    /\ lobstr.pc = "raised"
    /\ lobstr' = [lobstr EXCEPT !.pc = "returned"]
    /\ OnlyLobstr

NextLobstrPoll ==
    \/ LobstrPollStatus
    \/ LobstrPollTimeout
    \/ LobstrPollCaught

\* the loop is a plain coroutine: it goes on whenever it can
SpecLobstrPoll ==
    InitLobstrPoll /\ [][NextLobstrPoll]_vars /\ WF_vars(NextLobstrPoll)

-----------------------------------------------------------------------------
(* ApifyFetcher.process_accounts with its polling loop step by step        *)

MaxAccounts == 3        \* accounts handed to one process_accounts call
MaxPolls == 4           \* status polls that are counted; the loop goes on after

OnlyApify == UNCHANGED <<dbVars, cycleVars, historyVars, pureVars, scheduler, scrape,
                         lobstr, telegram>>

InitApifyWait ==
    /\ PipelineOff
    /\ PureIdle
    /\ scheduler = SchedulerOff
    /\ scrape = ScrapeOff
    /\ lobstr = LobstrOff
    /\ telegram = TelegramOff
    /\ \E n \in 0..MaxAccounts :
          apify = [pc |-> "next", accounts |-> n, i |-> 1, polls |-> 0,
                   delivered |-> {}, raised |-> FALSE]

\* the for loop takes the next account: _start_actor gives a run id or raises
\* 'Unexpected answer from apify'
ApifyWaitStartActor ==
    /\ apify.pc = "next" /\ apify.i <= apify.accounts
    /\ \/ apify' = [apify EXCEPT !.pc = "get", !.polls = 0]
       \/ apify' = [apify EXCEPT !.pc = "returned", !.raised = TRUE]
    /\ OnlyApify

\* _wait_for_finish reads the status of the run: the dataset and the callback
\* on SUCCEEDED, an exception on a failed run, else on to the sleep
ApifyWaitGetStatus ==
    /\ apify.pc = "get"
    /\ \E status \in ApifyStatuses :
          apify' = IF status = "SUCCEEDED"
                   THEN [apify EXCEPT !.pc = "next", !.i = @ + 1,
                                      !.delivered = @ \cup {apify.i}]
                   ELSE IF status \in {"FAILED", "ABORTED", "TIMED-OUT"}
                        THEN [apify EXCEPT !.pc = "returned", !.raised = TRUE]
                        ELSE [apify EXCEPT !.pc = "sleep"]
    /\ OnlyApify

\* asyncio.sleep(5), then the loop goes round; nothing counts the rounds, the
\* model counts them up to MaxPolls
ApifyWaitSleep ==
    /\ apify.pc = "sleep"
    /\ apify' = [apify EXCEPT !.pc = "get",
                              !.polls = IF @ < MaxPolls THEN @ + 1 ELSE @]
    /\ OnlyApify

\* the for loop is exhausted
ApifyWaitReturn ==
    /\ apify.pc = "next" /\ apify.i > apify.accounts
    /\ apify' = [apify EXCEPT !.pc = "returned"]
    /\ OnlyApify

NextApifyWait ==
    \/ ApifyWaitStartActor
    \/ ApifyWaitGetStatus
    \/ ApifyWaitSleep
    \/ ApifyWaitReturn

\* the coroutine goes on whenever it can
SpecApifyWait == InitApifyWait /\ [][NextApifyWait]_vars /\ WF_vars(NextApifyWait)

-----------------------------------------------------------------------------
(* SquidManager.get_squid on a store that may hold a squid hash            *)

\* The squids of the Lobstr account and what a SquidStore may hold
SquidHashes == {"s1", "s2", "s3"}
\* each hash at Lobstr: no such squid, a squid of this crawler, a squid of
\* another crawler
SquidKinds == {"absent", "match", "other"}

\* A hash as a variable holds it: None or <<hash>>
Stored(h) == <<h>>

\* LobstrClient.verify_squid: True, False on a 404, any other exception goes on
VerifySquid(squids, squid_hash) ==
    LET r == LobstrRequest(squids[squid_hash[1]])
    IN  IF r.raised THEN [raised |-> TRUE, value |-> FALSE]
        ELSE [raised |-> FALSE, value |-> squids[squid_hash[1]] # "absent"]

\* the squids list_squids returns, in the order of the hashes
ListedSquids(squids) ==
    SelectSeq(<<"s1", "s2", "s3">>, LAMBDA h : squids[h] # "absent")

\* step 2 of get_squid: the first listed squid of this crawler is stored and
\* returned, else Exception("Not found existing squid ...")
FindSquid(squids, store) ==
    LET all_squids == LobstrRequest(ListedSquids(squids))
    IN  IF all_squids.raised
        THEN [raised |-> "TypeError", squid_hash |-> None, store |-> store]
        ELSE LET matching == SelectSeq(all_squids.value, LAMBDA h : squids[h] = "match")
             IN  IF matching = <<>>
                 THEN [raised |-> "Exception", squid_hash |-> None, store |-> store]
                 ELSE [raised |-> "", squid_hash |-> Stored(matching[1]),
                       store |-> Stored(matching[1])]

\* SquidManager.get_squid
GetSquidStored(squids, store) ==
    IF store # None
    THEN LET verified == VerifySquid(squids, store)
         IN  IF verified.raised
             THEN [raised |-> "TypeError", squid_hash |-> None, store |-> store]
             ELSE IF verified.value
                  THEN [raised |-> "", squid_hash |-> store, store |-> store]
                  ELSE FindSquid(squids, None)
    ELSE FindSquid(squids, store)

InitSquid ==
    /\ PipelineOff
    /\ PureIdle
    /\ scheduler = SchedulerOff
    /\ scrape = ScrapeOff
    /\ apify = ApifyOff
    /\ telegram = TelegramOff
    /\ \E squids \in [SquidHashes -> SquidKinds], store \in {None} \cup {Stored(h) : h \in SquidHashes} :
          lobstr = [pc |-> "resolve", squids |-> squids, stored |-> store,
                    store |-> store, raised |-> "", squid_hash |-> None]

\* squid_hash = await manager.get_squid()
LobstrGetSquid ==
    /\ lobstr.pc = "resolve"
    /\ LET got == GetSquidStored(lobstr.squids, lobstr.store)
       IN  lobstr' = [lobstr EXCEPT !.pc = IF got.raised = "" THEN "resolved" ELSE "raised",
                                    !.raised = got.raised,
                                    !.squid_hash = got.squid_hash,
                                    !.store = got.store]
    /\ OnlyLobstr

NextSquid == LobstrGetSquid

SpecSquid == InitSquid /\ [][NextSquid]_vars

-----------------------------------------------------------------------------
(* One remote request of each client against a provider that may answer    *)
(* 429                                                                     *)

\* "retry_count < 3" in _request_with_retry
RetryLimit == 3

\* What the provider answers to the first, second, ... sending of the request
StatusCodes == {200, 429, 500}
AnswerPlans == [1..(RetryLimit + 1) -> StatusCodes]

\* LobstrClient._request_with_retry(method, path, retry_count, **kwargs) once
\* it runs: it sends, and on a 429 with retries left it sleeps 70 s and calls
\* itself with kwargs as a fourth positional argument, which is a TypeError;
\* otherwise raise_for_status() and the json
RequestWithRetry(plan, retry_count) ==
    LET status == plan[retry_count + 1]
    IN  IF status = 429 /\ retry_count < RetryLimit
        THEN [sends |-> retry_count + 1, outcome |-> "TypeError"]
        ELSE [sends |-> retry_count + 1,
              outcome |-> IF status = 200 THEN "json" ELSE "ClientResponseError"]

\* LobstrClient._request(method, path, **kwargs): the call
\* _request_with_retry(method, path, 0, kwargs) does not fit the signature, so
\* the coroutine above never starts
Request(plan) ==
    LET fits_signature == FALSE
    IN  IF fits_signature THEN RequestWithRetry(plan, 0)
        ELSE [sends |-> 0, outcome |-> "TypeError"]

\* ApifyFetcher._start_actor: one POST; the run id when the json has 'data',
\* else Exception('Unexpected answer from apify')
StartActor(plan) ==
    [sends |-> 1, outcome |-> IF plan[1] = 200 THEN "run_id" ELSE "Exception"]

InitRateLimit ==
    /\ PipelineOff
    /\ PureIdle
    /\ scheduler = SchedulerOff
    /\ scrape = ScrapeOff
    /\ telegram = TelegramOff
    /\ \E plan \in AnswerPlans :
          /\ lobstr = [pc |-> "call", plan |-> plan, sends |-> 0, outcome |-> ""]
          /\ apify = [pc |-> "call", plan |-> plan, sends |-> 0, outcome |-> ""]

\* a method of LobstrClient awaits self._request(...)
LobstrClientRequest ==
    /\ lobstr.pc = "call"
    /\ LET r == Request(lobstr.plan)
       IN  lobstr' = [lobstr EXCEPT !.pc = "done", !.sends = r.sends,
                                    !.outcome = r.outcome]
    /\ UNCHANGED <<dbVars, cycleVars, historyVars, pureVars, scheduler, scrape, apify,
                   telegram>>

\* _fetch_by_type awaits self._start_actor(...)
ApifyStartActorRequest ==
    /\ apify.pc = "call"
    /\ LET r == StartActor(apify.plan)
       IN  apify' = [apify EXCEPT !.pc = "done", !.sends = r.sends,
                                  !.outcome = r.outcome]
    /\ OnlyApify

NextRateLimit ==
    \/ LobstrClientRequest
    \/ ApifyStartActorRequest

SpecRateLimit == InitRateLimit /\ [][NextRateLimit]_vars

-----------------------------------------------------------------------------
(* The item mappers of the three fetchers, each applied to one batch       *)

MaxBatch == 2           \* items of one batch

\* An item of a provider's answer: its short code ("" when the field is
\* missing), its timestamp (ISO or epoch as the provider gives it, or
\* something that cannot be parsed), and for Apify whether it is an error item
RawItems == [code : {"c1", ""}, timestamp : {"iso", "bad"}, error : BOOLEAN]
RawBatches == UNION {[1..n -> RawItems] : n \in 0..MaxBatch}

\* An item of a Lobstr run: also the handle at the end of its input_url and
\* its owner_username, "" when the field is missing
LobstrItems == [code : {"c1", ""}, timestamp : {"iso", "bad"},
                input_url : {"", "a", "A"}, owner : {"", "a", "A", "b"}]
LobstrBatches == UNION {[1..n -> LobstrItems] : n \in 0..MaxBatch}

\* ApifyFetcher._filter_apify_errors
FilterApifyErrors(items) == SelectSeq(items, LAMBDA item : ~item.error)

\* the loop of ApifyFetcher._map_posts: every item becomes a FetchedPost, with
\* post_code None when shortCode is missing; datetime.fromisoformat raises on
\* a timestamp that is missing or malformed
RECURSIVE MapPostsLoop(_)
MapPostsLoop(items) ==
    IF items = <<>> THEN [raised |-> FALSE, posts |-> <<>>]
    ELSE IF items[1].timestamp # "iso" THEN [raised |-> TRUE, posts |-> <<>>]
    ELSE LET rest == MapPostsLoop(Tail(items))
             post == [post_code |-> IF items[1].code = "" THEN None ELSE items[1].code,
                      published_at |-> "parsed"]
         IN  IF rest.raised THEN rest
             ELSE [raised |-> FALSE, posts |-> <<post>> \o rest.posts]

\* ApifyFetcher._map_posts
MapPosts(items) == MapPostsLoop(FilterApifyErrors(items))

\* _parse_datetime of lobstr_fetcher: the epoch for what it cannot parse
ParseDatetime(timestamp) == IF timestamp = "iso" THEN "parsed" ELSE "epoch"

\* _item_to_fetched_post of lobstr_fetcher
ItemToFetchedPost(item) ==
    IF item.code = "" THEN None
    ELSE [post_code |-> item.code, published_at |-> ParseDatetime(item.timestamp)]

\* the filter of _parse_results: without input_url the owner is compared in
\* lower case, and an item without owner passes; with input_url its last part
\* is compared as it is written
SkipsItem(item, username) ==
    IF item.input_url = ""
    THEN item.owner # "" /\ Lower(item.owner) # Lower(username)
    ELSE username # item.input_url

\* _parse_results
RECURSIVE ParseResults(_, _)
ParseResults(raw_items, username) ==
    IF raw_items = <<>> THEN <<>>
    ELSE LET rest == ParseResults(Tail(raw_items), username)
             post == ItemToFetchedPost(raw_items[1])
         IN  IF SkipsItem(raw_items[1], username) \/ post = None THEN rest
             ELSE <<post>> \o rest

InitItems ==
    /\ PipelineOff
    /\ PureIdle
    /\ scheduler = SchedulerOff
    /\ telegram = TelegramOff
    /\ \/ /\ \E items \in RawBatches :
                /\ apify = [pc |-> "items", items |-> items, raised |-> FALSE,
                            posts |-> <<>>]
                /\ scrape = [pc |-> "items", raw_items |-> items, raised |-> FALSE,
                             posts |-> <<>>]
          /\ lobstr = LobstrOff
       \/ /\ \E all_results \in LobstrBatches, username \in {"a", "b"} :
                lobstr = [pc |-> "items", all_results |-> all_results,
                          username |-> username, posts |-> <<>>]
          /\ apify = ApifyOff
          /\ scrape = ScrapeOff

\* _fetch_by_type: return self._map_posts(items, "reels")
ApifyMapPosts ==
    /\ apify.pc = "items"
    /\ LET mapped == MapPosts(apify.items)
       IN  apify' = [apify EXCEPT !.pc = "mapped", !.raised = mapped.raised,
                                  !.posts = mapped.posts]
    /\ OnlyApify

\* _fetch_one: posts = _parse_items(raw_items)
ScrapeParseItems ==
    /\ scrape.pc = "items"
    /\ LET parsed == ParseItems(scrape.raw_items)
       IN  scrape' = [scrape EXCEPT !.pc = "parsed", !.raised = parsed.raised,
                                    !.posts = parsed.posts]
    /\ OnlyScrape

\* _dispatch: posts = _parse_results(all_results, username=account.username)
LobstrParseResults ==
    /\ lobstr.pc = "items"
    /\ lobstr' = [lobstr EXCEPT !.pc = "parsed",
                                !.posts = ParseResults(lobstr.all_results, lobstr.username)]
    /\ OnlyLobstr

NextItems ==
    \/ ApifyMapPosts
    \/ ScrapeParseItems
    \/ LobstrParseResults

SpecItems == InitItems /\ [][NextItems]_vars

-----------------------------------------------------------------------------
(* The dispatch of the results of one run to the accounts of the pass       *)

\* The items of a run, each with its own short code
DemuxItems == [code : {"c1", "c2"}, timestamp : {"iso"},
               input_url : {"", "a", "A"}, owner : {"", "a", "A", "b"}]
DemuxBatches ==
    {batch \in UNION {[1..n -> DemuxItems] : n \in 0..MaxBatch} :
        \A i, j \in DOMAIN batch : batch[i].code = batch[j].code => i = j}

\* The accounts of the pass: two different handles, in either order
DemuxAccounts == {<<"a", "b">>, <<"b", "a">>}

InitDemux ==
    /\ PipelineOff
    /\ PureIdle
    /\ scheduler = SchedulerOff
    /\ scrape = ScrapeOff
    /\ apify = ApifyOff
    /\ telegram = TelegramOff
    /\ \E all_results \in DemuxBatches, usernames \in DemuxAccounts :
          lobstr = [pc |-> "results", all_results |-> all_results,
                    usernames |-> usernames,
                    delivered |-> [i \in DOMAIN usernames |-> <<>>]]

\* asyncio.gather over _dispatch(all_results, account, callback): each account
\* gets _parse_results(all_results, username=account.username), handed to the
\* callback when it is not empty
LobstrDispatch ==
    /\ lobstr.pc = "results"
    /\ lobstr' = [lobstr EXCEPT
                     !.pc = "dispatched",
                     !.delivered = [i \in DOMAIN lobstr.usernames |->
                                       ParseResults(lobstr.all_results, lobstr.usernames[i])]]
    /\ OnlyLobstr

NextDemux == LobstrDispatch

SpecDemux == InitDemux /\ [][NextDemux]_vars

-----------------------------------------------------------------------------
(* SquidManager.ensure_tasks with a client whose requests are answered      *)

\* The usernames handed to ensure_tasks: those of a pass, or one handle
\* written twice in different letter case
ReconcileRequests == UsernameLists \cup {<<"a", "A">>, <<"B", "b">>}

\* The tasks of the squid after ensure_tasks when list_tasks, remove_task and
\* add_tasks are answered: the tasks of to_delete are gone, one task per url
\* of to_add has come, with the ids Lobstr gives next
ReconcileTasks(tasks, usernames) ==
    LET existing == ExistingIndex(tasks)
        to_delete == ToDelete(existing, usernames)
        to_add == ToAdd(existing, usernames)
        kept == SelectSeq(tasks, LAMBDA t : t.id \notin to_delete)
    IN  [removed |-> to_delete,
         added |-> to_add,
         tasks |-> kept \o [i \in DOMAIN to_add |->
                               [id |-> Len(AllRemoteTasks) + i, handle |-> to_add[i]]]]

InitReconcile ==
    /\ PipelineOff
    /\ PureIdle
    /\ scheduler = SchedulerOff
    /\ scrape = ScrapeOff
    /\ apify = ApifyOff
    /\ telegram = TelegramOff
    /\ \E tasks \in RemoteTaskLists, usernames \in ReconcileRequests :
          lobstr = [pc |-> "reconcile", before |-> tasks, usernames |-> usernames,
                    tasks |-> tasks, removed |-> {}, added |-> <<>>]

\* await manager.ensure_tasks(squid_hash, usernames) returns
LobstrEnsureTasks ==
    /\ lobstr.pc = "reconcile"
    /\ LET done == ReconcileTasks(lobstr.tasks, lobstr.usernames)
       IN  lobstr' = [lobstr EXCEPT !.pc = "reconciled", !.tasks = done.tasks,
                                    !.removed = done.removed, !.added = done.added]
    /\ OnlyLobstr

NextReconcile == LobstrEnsureTasks

SpecReconcile == InitReconcile /\ [][NextReconcile]_vars

-----------------------------------------------------------------------------
(* Properties of the pipeline                                              *)

Range(seq) == {seq[i] : i \in DOMAIN seq}

AlertsFor(user_id, post_id) ==
    {i \in DOMAIN alerts : alerts[i].user_id = user_id /\ alerts[i].post_id = post_id}

\* C1: for every (subscriber, content) pair at most one Alert row exists, in
\* every state of every sequence of monitoring cycles.
C1_AtMostOneAlertPerPair ==
    \A u \in UserIds, p \in DOMAIN posts : Cardinality(AlertsFor(u, p)) <= 1

\* C1 witness: some content was judged trending at least twice while the
\* subscriber followed the account, and exactly one Alert exists for the pair.
C1_Witness ==
    \E k \in DOMAIN trendings :
        trendings[k] >= 2 /\ Cardinality(AlertsFor(k[1], k[2])) = 1

PostsWithCode(code) == {i \in DOMAIN posts : posts[i].post_code = code}

\* C2: every content code that was handed to get-or-create has exactly one
\* Content row.
C2_ExactlyOneContentPerObservedCode ==
    \A c \in observed : Cardinality(PostsWithCode(c)) = 1

\* C3: in the job-polling fetcher, when a pass in which some account's fetch
\* failed has returned, every account of the list was attempted and the
\* callback was invoked for every account whose fetch did not fail.
C3_FetchFailureIsolated ==
    (fetcher = "apify" /\ pc = "returned" /\ failed # {}) =>
        /\ attempted = Range(run.accounts)
        /\ \A a \in Range(run.accounts) \ failed : a \in called

\* C4: a pass run with the cursor-paginated fetcher over a non-empty account
\* list attempts a fetch for every account and returns normally.
C4_CursorFetcherRunsThePass ==
    (fetcher = "scrape" /\ pc \in {"returned", "raised"} /\ run.accounts # <<>>) =>
        /\ pc = "returned"
        /\ attempted = Range(run.accounts)

\* C5: when a pass has returned, every item that a fetch of the pass yielded
\* has been processed to the end (snapshot appended, alerts created).
C5_CallbacksCompleteBeforeReturn ==
    pc = "returned" => \A a \in AccountIds : processed[a] = yielded[a]

\* C11: when a pass has returned, every account of the pass whose fetch failed
\* or yielded no item has baseline 0 in both categories.
C11_BaselineResetWithoutItems ==
    pc = "returned" =>
        \A a \in Range(run.accounts) :
            yielded[a] = 0 =>
                /\ accounts[a].avg_reels_views_per_hour = Zero
                /\ accounts[a].avg_posts_views_per_hour = Zero

\* C20: an alert whose sent_to_telegram is true keeps it true in every step.
C20_DeliveredStaysDelivered ==
    [][\A i \in DOMAIN alerts :
          alerts[i].sent_to_telegram =>
              (i \in DOMAIN alerts' /\ alerts'[i].sent_to_telegram)]_vars

\* C20 witness: an alert that was delivered, and whose content was judged
\* trending again afterwards for the same subscriber.
C20_Witness ==
    \E i \in DOMAIN alerts :
        /\ alerts[i].sent_to_telegram
        /\ trendings[<<alerts[i].user_id, alerts[i].post_id>>] >= 2
        /\ pc = "process_posts"

\* C21: sent_to_telegram goes from false to true only in a step of
\* send_pending_alerts and only for an alert for which Telegram answered 200 in that
\* round; an alert whose send failed or raised, or whose user has no chat id,
\* is still unsent after the round; an alert is created unsent and no step of
\* the monitoring pass sets the flag.
C21_DeliveredOnlyOnSuccess ==
    [][/\ \A i \in DOMAIN alerts' :
            (alerts'[i].sent_to_telegram
                /\ (i \notin DOMAIN alerts \/ ~alerts[i].sent_to_telegram)) =>
               /\ pc = "returned" /\ pc' = "delivered"
               /\ i \in DOMAIN telegram'.outcomes
               /\ telegram'.outcomes[i] = "200"
       /\ (pc = "returned" /\ pc' = "delivered") =>
            \A i \in DOMAIN telegram'.outcomes :
                telegram'.outcomes[i] # "200" => ~alerts'[i].sent_to_telegram]_vars

\* a round has marked one alert after a success while another unsent alert,
\* whose send did not succeed, stayed unsent
C21_Witness ==
    /\ pc = "delivered"
    /\ \E i, j \in DOMAIN telegram.outcomes :
          /\ telegram.outcomes[i] = "200" /\ alerts[i].sent_to_telegram
          /\ telegram.outcomes[j] \in {"400", "exception", "no_chat_id"}
          /\ ~alerts[j].sent_to_telegram

\* C22: no step of _process_posts changes an alert that exists: when the
\* content of an alert is judged trending again for its subscriber, the
\* alert's views, views_per_hour, avg_views_per_hour, growth_rate, detected_at
\* and sent_to_telegram are what they were.
C22_ExistingAlertUntouched ==
    [][pc = "process_posts" =>
          \A i \in DOMAIN alerts : i \in DOMAIN alerts' /\ alerts'[i] = alerts[i]]_vars

\* an alert of an earlier pass whose content was judged trending again for
\* the same subscriber in this pass
C22_Witness ==
    \E i \in DOMAIN alerts :
        /\ pc = "process_posts"
        /\ alerts[i].detected_at < now
        /\ trendings[<<alerts[i].user_id, alerts[i].post_id>>] >= 2

\* C23: post_snapshots only grows at its end: every step keeps the rows that
\* exist as they are, a step adds at most one row and only inside
\* _process_posts, an item that went through the loop added exactly one row for
\* its post, and the checked_at of a new row is not before the checked_at of
\* any row already stored for the same post.
C23_SnapshotsAppendOnly ==
    [][LET old == Len(post_snapshots)
           new == Len(post_snapshots')
       IN  /\ old <= new /\ new <= old + 1
           /\ SubSeq(post_snapshots', 1, old) = post_snapshots
           /\ new = old + 1 =>
                 /\ pc = "process_posts"
                 /\ post_snapshots'[new].post_id =
                       GetByCode(posts, cb.fetched_posts[cb.j].post_code)
                 /\ \A i \in 1..old :
                       post_snapshots[i].post_id = post_snapshots'[new].post_id =>
                           post_snapshots[i].checked_at <= post_snapshots'[new].checked_at
           /\ (\E a \in DOMAIN processed : processed'[a] > processed[a]) =>
                 new = old + 1]_vars

\* a post that has a snapshot of an earlier pass and one of this pass
C23_Witness ==
    \E i, j \in DOMAIN post_snapshots :
        /\ i < j
        /\ post_snapshots[i].post_id = post_snapshots[j].post_id
        /\ post_snapshots[i].checked_at < post_snapshots[j].checked_at

\* the analysis _process_posts makes of the item it is at, on the snapshots
\* as the step leaves them
ResultOfStep ==
    LET fetched == cb.fetched_posts[cb.j]
        post_id == GetByCode(posts, fetched.post_code)
    IN  AnalyzePost(t_args.config, post_id, posts[post_id].published_at,
                    GetPostSnapshots(post_snapshots', post_id),
                    AccountAvgSpeed(cb.account, fetched.post_type))

\* the step finishes the processing of one item
FinishesItem ==
    /\ pc = "process_posts" /\ cb.j <= Len(cb.fetched_posts)
    /\ processed'[cb.account] = processed[cb.account] + 1

StoredBaseline ==
    IF cb.fetched_posts[cb.j].post_type = "post"
    THEN accounts[cb.account].avg_posts_views_per_hour
    ELSE accounts[cb.account].avg_reels_views_per_hour

\* C33: a step that processes an item leaves the accounts table as it is, and
\* an alert it creates carries the stored baseline of the item's category;
\* the accounts table changes only in the step after the last item, which
\* writes the row of the account of the pass and ends its processing.
C33_BaselinesWrittenAfterLastItem ==
    [][/\ (pc = "process_posts" /\ cb.j <= Len(cb.fetched_posts)) =>
             /\ accounts' = accounts
             /\ \A i \in DOMAIN alerts' \ DOMAIN alerts :
                    alerts'[i].avg_views_per_hour = StoredBaseline
       /\ accounts' # accounts =>
             /\ pc = "process_posts" /\ cb.j > Len(cb.fetched_posts)
             /\ pc' # "process_posts"
             /\ \A a \in AccountIds \ {cb.account} : accounts'[a] = accounts[a]
             /\ accounts'[cb.account].last_checked = now]_vars

\* the second item of a batch of one category got its alert while the stored
\* baseline was the one from before the pass
C33_Witness ==
    /\ pc = "process_posts" /\ cb.j = 3
    /\ cb.fetched_posts[1].post_type = cb.fetched_posts[2].post_type
    /\ accounts[cb.account].last_checked = FirstObservation
    /\ \E i \in DOMAIN alerts :
          /\ alerts[i].post_id = GetByCode(posts, cb.fetched_posts[2].post_code)
          /\ alerts[i].avg_views_per_hour # Zero
          /\ alerts[i].avg_views_per_hour # CalculateAccountAverageSpeed(
                IF cb.fetched_posts[2].post_type = "post"
                THEN SubSeq(cb.posts_speeds, 1, 1) ELSE SubSeq(cb.reels_speeds, 1, 1))

\* the velocity of a post as its stored snapshots and its publish time give
\* it, with no baseline involved
VelocityFromSnapshots(post_id) ==
    LET snaps == GetPostSnapshots(post_snapshots, post_id)
    IN  CalculateCurrentSpeed(
            snaps, HoursBetween(posts[post_id].published_at, snaps[Len(snaps)].checked_at))

\* the velocities of the items of one category of the batch, in its order
RECURSIVE BatchVelocities(_, _)
BatchVelocities(batch, post_type) ==
    IF batch = <<>> THEN <<>>
    ELSE LET rest == BatchVelocities(Tail(batch), post_type)
         IN  IF batch[1].post_type = post_type
             THEN <<VelocityFromSnapshots(GetByCode(posts, batch[1].post_code))>> \o rest
             ELSE rest

\* C35: the averages a pass commits are the means of the positive velocities
\* of its items per category, each velocity being given by the stored
\* snapshots and the item alone; the averages the account had before the
\* pass do not enter.
C35_CommitIgnoresOldBaseline ==
    [][(pc = "process_posts" /\ pc' = "apify_next") =>
          /\ accounts'[cb.account].avg_reels_views_per_hour =
                CalculateAccountAverageSpeed(BatchVelocities(cb.fetched_posts, "reel"))
          /\ accounts'[cb.account].avg_posts_views_per_hour =
                CalculateAccountAverageSpeed(BatchVelocities(cb.fetched_posts, "post"))]_vars

\* a pass of two items that began with the baseline 100 (an alert of the
\* pass carries it) has committed another baseline
C35_Witness ==
    /\ pc = "apify_next" /\ processed[1] = 2
    /\ accounts[1].last_checked = now
    /\ \E i \in DOMAIN alerts : alerts[i].avg_views_per_hour = RatInt(100)
    /\ accounts[1].avg_reels_views_per_hour \notin {Zero, RatInt(100)}
    /\ accounts[1].avg_posts_views_per_hour \notin {Zero, RatInt(100)}

\* C37: a step creates alerts only while it processes an item whose analysis
\* is trending, and then only for the post of that item, with at least
\* min_snapshots snapshots stored for it and a stored baseline of the item's
\* category above zero.
C37_AlertOnlyWhenTrending ==
    [][\A i \in DOMAIN alerts' \ DOMAIN alerts :
          /\ pc = "process_posts" /\ cb.j <= Len(cb.fetched_posts)
          /\ alerts'[i].post_id = ResultOfStep.post_id
          /\ ResultOfStep.is_trending
          /\ Len(GetPostSnapshots(post_snapshots', alerts'[i].post_id))
                >= t_args.config.min_snapshots
          /\ RatLT(Zero, StoredBaseline)]_vars

-----------------------------------------------------------------------------
(* Properties of the scheduler                                             *)

GateClosed ==
    scheduler.skip_night_time /\ scheduler.started_at < WorkingHoursStart

InWake == scheduler.pc \in {"session", "monitor", "deliver", "sleep", "crashed"}

\* C12: with the gate enabled a wake strictly before 08:00 calls neither
\* monitor_cycle nor send_pending_alerts and goes to the sleep; any other wake
\* (08:00 or later, or the gate disabled) enters the cycle, and when it has
\* reached the sleep monitor_cycle was called once and send_pending_alerts
\* once after it, unless monitor_cycle raised.
C12_WorkingHoursGate ==
    (scheduler.wakes > 0 /\ InWake) =>
        IF GateClosed
        THEN /\ scheduler.pc = "sleep"
             /\ scheduler.monitor_calls = 0
             /\ scheduler.deliveries = 0
        ELSE scheduler.pc = "sleep" =>
                /\ scheduler.monitor_calls = 1
                /\ scheduler.deliveries = 1 \/ scheduler.cycle_raised

\* C12 witness: a wake at 08:00 sharp with the gate enabled has run the cycle
\* and its delivery.
C12_Witness ==
    /\ scheduler.pc = "sleep"
    /\ scheduler.skip_night_time
    /\ scheduler.started_at = WorkingHoursStart
    /\ scheduler.monitor_calls = 1 /\ scheduler.deliveries = 1

\* C13: no exception raised during a cycle leaves start().
C13_NoExceptionLeavesTheLoop ==
    scheduler.pc # "crashed"

Terminated == scheduler.pc \in {"stopped", "crashed"}

C34_IterationEndsWithSleep ==
    [][/\ (scheduler.pc \in {"session", "monitor", "deliver"}
              /\ scheduler'.pc # scheduler.pc) =>
             scheduler'.pc \in {"monitor", "deliver", "sleep"}
       /\ (scheduler.pc \in {"session", "monitor", "deliver", "sleep"}
              /\ scheduler'.pc = "loop") =>
             scheduler.pc = "sleep"
       /\ (scheduler.pc = "sleep" /\ scheduler'.pc # "sleep") =>
             scheduler'.pc = "loop"]_vars

-----------------------------------------------------------------------------
(* Properties of the delivery rounds                                       *)

\* C36: no alert for which _send_message once returned True is handed to
\* _send_message again, in the same round or in a later one.
C36_NoResendAfterSuccess == telegram.resent = {}

\* the alerts of the round that have a destination
DueInRound ==
    {telegram.queue[i] : i \in {j \in DOMAIN telegram.queue :
                                   telegram.chat_ids[telegram.queue[j]] # None}}

\* C40: a cycle whose pass raised hands nothing to the channel; in a cycle
\* whose pass returned, every alert that was unsent, followed and has a chat id
\* has been handed to the channel when the round is over; and an alert whose
\* send succeeded is eventually marked sent.
C40_UndeliveredAlertRetried ==
    /\ [](telegram.last = "pass_raised" => telegram.handed = {})
    /\ []((telegram.pc = "idle" /\ telegram.last \in {"committed", "round_failed"}) =>
              DueInRound \subseteq telegram.handed)
    /\ \A a \in DeliveryAlerts : (a \in telegram.succeeded) ~> telegram.sent[a]

-----------------------------------------------------------------------------
(* Properties of the cursor-paginated fetcher                              *)

FirstOld(items) ==
    IF \E i \in DOMAIN items : items[i].published = "old"
    THEN CHOOSE i \in DOMAIN items :
            /\ items[i].published = "old"
            /\ \A j \in 1..(i - 1) : items[j].published = "new"
    ELSE 0

RECURSIVE ItemsOfPages(_)
ItemsOfPages(pages) ==
    IF pages = <<>> THEN <<>>
    ELSE ItemsOfPages(SubSeq(pages, 1, Len(pages) - 1)) \o pages[Len(pages)].items

\* The items _fetch_one is to deliver after these pages: all of them, up to
\* the first old item of the last page
InWindow(pages) ==
    IF pages = <<>> THEN <<>>
    ELSE LET last == pages[Len(pages)]
             before == ItemsOfPages(SubSeq(pages, 1, Len(pages) - 1))
         IN  IF FirstOld(last.items) > 0
             THEN before \o SubSeq(last.items, 1, FirstOld(last.items) - 1)
             ELSE before \o last.items

\* C15: when a page holds an item older than the cutoff, _fetch_one ends with
\* that page: it delivers the items of the earlier pages and the items of
\* this page before the first old one, and nothing else.
C15_CutoffEndsPagination ==
    \A i \in DOMAIN scrape.tasks :
        LET task == scrape.tasks[i]
            last == task.pages[Len(task.pages)]
        IN  (task.pages # <<>> /\ last.status = 200 /\ FirstOld(last.items) > 0) =>
                /\ task.status = "done"
                /\ task.delivered = InWindow(task.pages)
                /\ task.called = (task.delivered # <<>>)

\* C16: when process_usernames has returned, every account's fetch was
\* started and has ended; an account whose request failed (404 or any other
\* error) delivered nothing, and every other account delivered the items of
\* its pages to the callback, whatever happened to the accounts around it.
C16_ScrapeErrorIsolated ==
    scrape.pc = "returned" =>
        \A i \in DOMAIN scrape.tasks :
            LET task == scrape.tasks[i]
            IN  /\ task.page >= 1
                /\ task.status # "running"
                /\ IF task.failed
                   THEN ~task.called /\ task.delivered = <<>>
                   ELSE /\ task.delivered = InWindow(task.pages)
                        /\ task.called = (InWindow(task.pages) # <<>>)

\* the page lets pagination go on: no item before the cutoff, more pages
\* signalled, a next cursor given
LetsContinue(resp) ==
    /\ resp.status = 200
    /\ FirstOld(resp.items) = 0
    /\ resp.more_available
    /\ resp.next_max_id # None

\* C24: the first request of an account carries no cursor; a further page is
\* requested only after a page that held no item before the cutoff, signalled
\* more pages and gave a next cursor, and the request carries the cursor of
\* that page; after any other page the fetch of the account is over.
C24_NextPageOnlyOnCursor ==
    \A i \in DOMAIN scrape.tasks :
        LET task == scrape.tasks[i]
        IN  /\ Len(task.cursors) = Len(task.pages)
            /\ \A k \in DOMAIN task.pages :
                  IF k = 1 THEN task.cursors[k] = None
                  ELSE /\ LetsContinue(task.pages[k - 1])
                       /\ task.cursors[k] = task.pages[k - 1].next_max_id
            /\ (task.pages # <<>> /\ ~LetsContinue(task.pages[Len(task.pages)])) =>
                  task.status # "running"

\* a second page was requested with the cursor of the first, and pagination
\* ended with it because it gave no next cursor
C24_Witness ==
    \E i \in DOMAIN scrape.tasks :
        LET task == scrape.tasks[i]
        IN  /\ Len(task.pages) = 2
            /\ task.cursors[2] = <<"m2">>
            /\ task.pages[2].status = 200 /\ task.pages[2].more_available
            /\ task.pages[2].next_max_id = None
            /\ task.status = "done"

-----------------------------------------------------------------------------
(* Properties of the reconciling fetcher                                   *)

\* This pass went through process_accounts with accounts while no other pass
\* had begun, against a squid that exists
RanAlone(c) ==
    /\ lobstr.passes[c].pc = "returned"
    /\ lobstr.passes[c].usernames # <<>>
    /\ lobstr.remote.squid
    /\ \A d \in LobstrCallers \ {c} : lobstr.passes[d].pc = "idle"

\* the ids of the existing tasks whose handle is not requested, and the
\* requested handles that have no task, both without regard to case
StaleTasks(tasks, usernames) ==
    {tasks[i].id : i \in {j \in DOMAIN tasks :
        \A k \in DOMAIN usernames : Lower(usernames[k]) # Lower(tasks[j].handle)}}
MissingHandles(tasks, usernames) ==
    {usernames[k] : k \in {l \in DOMAIN usernames :
        \A i \in DOMAIN tasks : Lower(tasks[i].handle) # Lower(usernames[l])}}

\* C17: after a pass has reconciled the squid, the removes issued are exactly
\* the existing tasks whose handle is not requested and the adds issued are
\* exactly the requested handles without a task, handles compared without
\* regard to case; nothing else was mutated.
C17_ReconcileRemovesAndAdds ==
    \A c \in LobstrCallers :
        RanAlone(c) =>
            /\ lobstr.remote.removed =
                  StaleTasks(lobstr.remote.tasks, lobstr.passes[c].usernames)
            /\ {lobstr.remote.added[i] : i \in DOMAIN lobstr.remote.added} =
                  MissingHandles(lobstr.remote.tasks, lobstr.passes[c].usernames)
            /\ Len(lobstr.remote.added) =
                  Cardinality(MissingHandles(lobstr.remote.tasks, lobstr.passes[c].usernames))

\* C18: a pass over a squid that exists creates exactly one run, after the
\* squid was resolved and its tasks reconciled; a pass whose resolution or
\* reconciliation failed creates none.
C18_OneRunPerPass ==
    \A c \in LobstrCallers :
        /\ RanAlone(c) =>
              /\ lobstr.remote.runs = 1
              /\ lobstr.passes[c].resolved /\ lobstr.passes[c].reconciled
        /\ (/\ lobstr.passes[c].pc = "returned"
            /\ \A d \in LobstrCallers \ {c} : lobstr.passes[d].pc = "idle"
            /\ ~(lobstr.passes[c].resolved /\ lobstr.passes[c].reconciled)) =>
              lobstr.remote.runs = 0

\* C30: after a pass on a squid that exists, every account of the pass whose
\* own dispatch did not fail had its results dispatched to the callback,
\* whichever other accounts' dispatches failed.
C30_DispatchFailureIsolated ==
    \A c \in LobstrCallers :
        RanAlone(c) =>
            lobstr.passes[c].dispatched =
                {lobstr.passes[c].usernames[i] : i \in DOMAIN lobstr.passes[c].usernames}
                    \ lobstr.passes[c].failing

\* The pass is inside its resolve-reconcile-run sequence on the squid
InFlight(c) == lobstr.passes[c].pc = "sequence"

\* C19: never are the sequences of two passes on the squid in flight together.
C19_OneSequenceInFlight ==
    \A c, d \in LobstrCallers : (InFlight(c) /\ InFlight(d)) => c = d

\* the first poll at which Lobstr's answer was an error status or carried
\* export_done, 0 when there was none
RECURSIVE FirstDecisive(_)
FirstDecisive(answers) ==
    IF answers = <<>> THEN 0
    ELSE LET before == FirstDecisive(SubSeq(answers, 1, Len(answers) - 1))
             last == answers[Len(answers)]
         IN  IF before > 0 THEN before
             ELSE IF last.status = "error" \/ last.export_done THEN Len(answers)
             ELSE 0

\* C25: polling ends; it never polls more than ceil(max_wait_seconds /
\* poll_interval) times; it stops at the first poll whose status is an error
\* (raising) or carries export_done (returning the results), and raises
\* TimeoutError only when no poll brought either; what it raises stays
\* inside process_accounts.
C25_PollingEnds ==
    /\ [](/\ Len(lobstr.answers) <= CeilDiv(lobstr.max_wait_seconds, lobstr.poll_interval)
          /\ ~lobstr.escaped
          /\ lobstr.pc \in {"dispatch", "raised", "returned"} =>
                LET k == FirstDecisive(lobstr.answers)
                IN  IF k = 0 THEN lobstr.left_with = "TimeoutError"
                    ELSE /\ k = Len(lobstr.answers)
                         /\ lobstr.left_with =
                               IF lobstr.answers[k].status = "error"
                               THEN "RuntimeError" ELSE "results")
    /\ <>(lobstr.pc \in {"dispatch", "returned"})

\* C31: get_squid returns the stored hash when that squid exists at Lobstr;
\* otherwise the stale hash leaves the store and the squid returned and stored
\* is one of this crawler; when Lobstr has no squid of this crawler get_squid
\* raises and the store holds no hash.
C31_SquidResolution ==
    lobstr.pc \in {"resolved", "raised"} =>
        IF lobstr.stored # None /\ lobstr.squids[lobstr.stored[1]] # "absent"
        THEN /\ lobstr.pc = "resolved"
             /\ lobstr.squid_hash = lobstr.stored /\ lobstr.store = lobstr.stored
        ELSE IF \E h \in SquidHashes : lobstr.squids[h] = "match"
             THEN /\ lobstr.pc = "resolved"
                  /\ lobstr.squid_hash # None
                  /\ lobstr.squids[lobstr.squid_hash[1]] = "match"
                  /\ lobstr.store = lobstr.squid_hash
             ELSE /\ lobstr.pc = "raised"
                  /\ lobstr.store = None

\* the accounts of the pass to whose callback the item with this code went
ReceiversOf(code) ==
    {i \in DOMAIN lobstr.delivered :
        \E k \in DOMAIN lobstr.delivered[i] : lobstr.delivered[i][k].post_code = code}

\* C38: after the dispatch of a run to accounts with different handles, no
\* item of the run is among the posts of two accounts.
C38_ItemToAtMostOneAccount ==
    lobstr.pc = "dispatched" =>
        \A k \in DOMAIN lobstr.all_results :
            Cardinality(ReceiversOf(lobstr.all_results[k].code)) <= 1

\* C39: after ensure_tasks the handles that have a task are the requested
\* handles, letter case aside: every task is for a requested handle, every
\* requested handle has a task, and no handle was added twice.
C39_TasksEqualRequested ==
    lobstr.pc = "reconciled" =>
        /\ {Lower(lobstr.tasks[i].handle) : i \in DOMAIN lobstr.tasks} =
              {Lower(lobstr.usernames[k]) : k \in DOMAIN lobstr.usernames}
        /\ \A i, j \in DOMAIN lobstr.added :
              Lower(lobstr.added[i]) = Lower(lobstr.added[j]) => i = j

-----------------------------------------------------------------------------
(* Properties of the job-polling fetcher                                   *)

\* C26: the status polling of a job is bounded, so every call of
\* process_accounts comes to its end, also when a job stays RUNNING.
C26_JobPollingBounded == <>(apify.pc = "returned")

-----------------------------------------------------------------------------
(* Properties of the requests                                              *)

\* the number of 429 answers at the head of the plan
RECURSIVE LeadingRateLimits(_)
LeadingRateLimits(plan) ==
    IF plan = <<>> \/ plan[1] # 429 THEN 0
    ELSE 1 + LeadingRateLimits(Tail(plan))

\* how often a request is to be sent: once, and once more after each 429
\* while retries are left
SendsDue(plan) ==
    1 + (IF LeadingRateLimits(plan) < RetryLimit
         THEN LeadingRateLimits(plan) ELSE RetryLimit)

\* C27: a request is sent once and re-sent after each 429 answer, at most
\* RetryLimit times; the first answer that is not a 429 ends it, with success
\* when that answer is a 200, and a 429 to the last re-send ends it with an
\* error.  This for the request of LobstrClient and for the job submission of
\* ApifyFetcher.
C27_RateLimitRetry ==
    /\ lobstr.pc = "done" =>
          /\ lobstr.sends = SendsDue(lobstr.plan)
          /\ (lobstr.outcome = "json") = (lobstr.plan[SendsDue(lobstr.plan)] = 200)
    /\ apify.pc = "done" =>
          /\ apify.sends = SendsDue(apify.plan)
          /\ (apify.outcome = "run_id") = (apify.plan[SendsDue(apify.plan)] = 200)

-----------------------------------------------------------------------------
(* Properties of the item mappers                                          *)

\* an item that has its code and whose fields can be parsed
WellFormed(item) == item.code # "" /\ item.timestamp = "iso"

PostCodesOf(fetched) == [i \in DOMAIN fetched |-> fetched[i].post_code]
ItemCodesOf(items) == [i \in DOMAIN items |-> items[i].code]

\* every item of the batch names the account as its owner and has no input_url
AllOwnedBy(items, username) ==
    \A i \in DOMAIN items : items[i].input_url = "" /\ items[i].owner = username

\* C28: in each fetcher the mapping of a batch does not raise, and the posts
\* it gives are the well-formed items of the batch, in their order: an item
\* without code or with a field that cannot be parsed is left out and the
\* others are all there.
C28_MalformedItemDropped ==
    /\ apify.pc = "mapped" =>
          /\ ~apify.raised
          /\ PostCodesOf(apify.posts) =
                ItemCodesOf(SelectSeq(apify.items,
                                      LAMBDA item : WellFormed(item) /\ ~item.error))
    /\ scrape.pc = "parsed" =>
          /\ ~scrape.raised
          /\ PostCodesOf(scrape.posts) = ItemCodesOf(SelectSeq(scrape.raw_items, WellFormed))
    /\ (lobstr.pc = "parsed" /\ AllOwnedBy(lobstr.all_results, lobstr.username)) =>
          PostCodesOf(lobstr.posts) = ItemCodesOf(SelectSeq(lobstr.all_results, WellFormed))

\* the item is the account's: its owner, or the handle at the end of its
\* input_url, is the account's handle up to letter case
BelongsTo(item, username) ==
    \/ item.owner # "" /\ Lower(item.owner) = Lower(username)
    \/ item.input_url # "" /\ Lower(item.input_url) = Lower(username)

\* C29: _parse_results gives an account the items (that have a code) whose
\* owner or input_url handle is the account's handle up to letter case, and
\* no other item.
C29_DemultiplexIgnoringCase ==
    lobstr.pc = "parsed" =>
        PostCodesOf(lobstr.posts) =
            ItemCodesOf(SelectSeq(lobstr.all_results,
                                  LAMBDA item : item.code # ""
                                                /\ BelongsTo(item, lobstr.username)))

-----------------------------------------------------------------------------
(* Properties of analyze_post                                              *)

\* The position of the most recent snapshot among positions I: the greatest
\* checked_at, and among equal ones the position that comes last
MostRecentAmong(snaps, I) ==
    CHOOSE i \in I : \A j \in I :
        \/ snaps[j].checked_at < snaps[i].checked_at
        \/ snaps[j].checked_at = snaps[i].checked_at /\ j <= i

LatestPos == MostRecentAmong(t_args.snapshots, DOMAIN t_args.snapshots)
PreviousPos ==
    MostRecentAmong(t_args.snapshots, DOMAIN t_args.snapshots \ {LatestPos})
LatestViews == t_args.snapshots[LatestPos].views
\* seconds from publication to the most recent snapshot
AgeSeconds == t_args.snapshots[LatestPos].checked_at - t_args.published_at
DeltaSeconds ==
    t_args.snapshots[LatestPos].checked_at - t_args.snapshots[PreviousPos].checked_at
DeltaViews == LatestViews - t_args.snapshots[PreviousPos].views
PublishTimeEstimate ==
    IF AgeSeconds > 0 THEN Rat(LatestViews * 3600, AgeSeconds) ELSE Zero
ViewsDecreased == Len(t_args.snapshots) >= 2 /\ DeltaViews < 0
Velocity == t_result.value.views_per_hour
Analyzed == t_result.returned /\ t_args.snapshots # <<>>

\* C6 as stated: the velocity is never negative, and when the latest snapshot
\* has fewer views than the previous one it equals
\* latest.views / hoursSincePublish, for every publish time.
C6_DecreaseGivesViewsOverAge ==
    Analyzed =>
        /\ RatLE(Zero, Velocity)
        /\ ViewsDecreased =>
              RatMul(Velocity, Rat(AgeSeconds, 3600)) = RatInt(LatestViews)

\* C6 amended: the velocity is never negative, and when the latest snapshot
\* has fewer views than the previous one it equals
\* latest.views / hoursSincePublish if hoursSincePublish is positive and 0
\* otherwise.
C6_NeverNegativeVelocity ==
    Analyzed =>
        /\ RatLE(Zero, Velocity)
        /\ ViewsDecreased => Velocity = PublishTimeEstimate

\* C6 witness: a decrease (1500 to 1000 views) with a positive age, answered
\* with the positive publish-time estimate.
C6_Witness ==
    /\ Analyzed /\ ViewsDecreased /\ AgeSeconds > 0 /\ LatestViews = 1000
    /\ Velocity = PublishTimeEstimate /\ RatLT(Zero, Velocity)

\* C7: no snapshots give velocity 0 and a non-trending result; two or more
\* snapshots whose two most recent are a positive time apart with a
\* non-negative view delta give delta views / delta hours; every other input
\* gives latest.views / hours since publish when that is positive, else 0.
C7_VelocityRule ==
    t_result.returned =>
        IF t_args.snapshots = <<>>
        THEN Velocity = Zero /\ ~t_result.value.is_trending
        ELSE IF Len(t_args.snapshots) >= 2 /\ DeltaSeconds > 0 /\ DeltaViews >= 0
             THEN Velocity = Rat(DeltaViews * 3600, DeltaSeconds)
             ELSE Velocity = PublishTimeEstimate

\* C7 witness: three snapshots given out of time order, the two most recent
\* 1000 and then 1500 views one hour apart: 500 views per hour.
C7_Witness ==
    /\ t_result.returned /\ Len(t_args.snapshots) = 3
    /\ LatestPos # 3
    /\ DeltaSeconds = 3600 /\ DeltaViews = 500
    /\ Velocity = RatInt(500)

BaselineUnknown ==
    \/ t_args.account_avg_speed = None
    \/ RatLE(t_args.account_avg_speed, Zero)

\* C8: with a zero, missing or negative baseline the growth is 0 and the
\* verdict is false, whatever the thresholds and the snapshot history.
C8_NoBaselineNeverTrending ==
    (t_result.returned /\ BaselineUnknown) =>
        /\ t_result.value.growth_rate = Zero
        /\ ~t_result.value.is_trending

GrowthReached ==
    RatLE(RatInt(t_args.config.growth_threshold_percent), t_result.value.growth_rate)
YoungEnough == AgeSeconds <= t_args.config.max_post_age_hours * 3600
EnoughSnapshots == Len(t_args.snapshots) >= t_args.config.min_snapshots

\* C9: the verdict is true exactly when the growth reaches the threshold, the
\* age (publication to the most recent snapshot) is within the maximum and the
\* snapshot count reaches the minimum; without snapshots it is false.
C9_TrendingIffAllThree ==
    t_result.returned =>
        IF t_args.snapshots = <<>>
        THEN ~t_result.value.is_trending
        ELSE t_result.value.is_trending <=>
                (GrowthReached /\ YoungEnough /\ EnoughSnapshots)

\* C9 witness: growth and age pass and only the snapshot count fails.
C9_Witness ==
    /\ Analyzed /\ GrowthReached /\ YoungEnough /\ ~EnoughSnapshots
    /\ t_args.config.growth_threshold_percent = 150
    /\ ~t_result.value.is_trending

-----------------------------------------------------------------------------
(* Properties of calculate_account_average_speed                           *)

PositivePositions == {i \in DOMAIN s_args : s_args[i][1] > 0}

RECURSIVE SumAt(_, _)
SumAt(seq, I) ==
    IF I = {} THEN Zero
    ELSE LET i == CHOOSE j \in I : TRUE IN RatAdd(seq[i], SumAt(seq, I \ {i}))

\* C10: the baseline is the arithmetic mean of the strictly positive
\* velocities of the list, and 0 when the list holds none.
C10_MeanOfPositiveSpeeds ==
    s_result.returned =>
        IF PositivePositions = {}
        THEN s_result.value = Zero
        ELSE RatMul(s_result.value, RatInt(Cardinality(PositivePositions)))
                = SumAt(s_args, PositivePositions)

\* C10 witness: a list with two positive velocities next to a zero or negative
\* one, answered with the mean of the two.
C10_Witness ==
    /\ s_result.returned
    /\ Cardinality(PositivePositions) = 2 /\ Len(s_args) = 3
    /\ RatMul(s_result.value, RatInt(2)) = SumAt(s_args, PositivePositions)

=============================================================================
